---- MODULE Spec2Model ----
(***************************************************************************)
(* A model of cityImage/simplify_streets.py: the indirect-cluster walk     *)
(* (indirect_cluster), the two dual-line dissolve passes                   *)
(* (simplify_dual_lines, simplify_dual_lines_nodes_to_cluster) with their  *)
(* dissolvers, and the edge reassignment (reassign_edges).                 *)
(*                                                                         *)
(* Tables are functions from ids to records; a table's row order is the    *)
(* ascending order of its ids.  Python's None is the id 0 (every node,     *)
(* edge, cluster and name id is positive).  Coordinates are integer pairs  *)
(* <<x, y>>; every input edge is a straight, axis-parallel segment between *)
(* the positions of its u and v nodes, so that lengths are integers and    *)
(* every comparison of two distances is decided exactly on their squares.  *)
(***************************************************************************)
EXTENDS Integers, Sequences, FiniteSets, TLC

VARIABLES
    nodes_gdf,           \* node id -> [x, y, cluster]
    edges_gdf,           \* edge id -> [u, v, geometry, name, length, pedestrian, ...]
    clusters_gdf,        \* cluster id -> [x, y, degree, keep]
    original_edges_gdf,  \* the copy of the edge table a pass reads its candidates from
    processed,           \* the ids a pass has processed
    to_drop,             \* the ids a pass will drop
    scan,                \* where the loops of a pass, or of reassign_edges, stand
    attempt,             \* what the turn of the road loop under way has worked out
    attempts,            \* what each turn of the road loop did, in order
    pc,                  \* "scan", "rows", "done", "raised"; "walk" in SpecWalk
    walk                 \* the running indirect_cluster call (SpecWalk)

vars == <<nodes_gdf, edges_gdf, clusters_gdf, original_edges_gdf, processed, to_drop,
          scan, attempt, attempts, pc, walk>>

None == 0

---------------------------------------------------------------------------
(* Sequences and sorting *)

Range(s) == {s[i] : i \in 1..Len(s)}

Reverse(s) == [i \in 1..Len(s) |-> s[Len(s) + 1 - i]]

RECURSIVE SetToSeq(_)
\* The ids of a table in row order (ascending).
SetToSeq(S) ==
    IF S = {} THEN <<>>
    ELSE LET m == CHOOSE x \in S : \A y \in S : x <= y
         IN <<m>> \o SetToSeq(S \ {m})

RECURSIVE InsertByKey(_, _, _)
InsertByKey(x, s, key) ==
    IF s = <<>> THEN <<x>>
    ELSE IF key[Head(s)] <= key[x] THEN <<Head(s)>> \o InsertByKey(x, Tail(s), key)
    ELSE <<x>> \o s

RECURSIVE SortByKey(_, _)
\* sort_values(by = key, ascending = True): ties keep their row order.
SortByKey(s, key) ==
    IF s = <<>> THEN <<>>
    ELSE InsertByKey(s[Len(s)], SortByKey(SubSeq(s, 1, Len(s) - 1), key), key)

---------------------------------------------------------------------------
(* Geometry *)

Abs(a) == IF a < 0 THEN -a ELSE a

\* The square of shapely's point-to-point distance.
Dist2(p, q) == (p[1] - q[1]) * (p[1] - q[1]) + (p[2] - q[2]) * (p[2] - q[2])

NodePoint(nodes, n) == <<nodes[n].x, nodes[n].y>>

ClusterPoint(clusters, c) == <<clusters[c].x, clusters[c].y>>

\* The bearing of a line, read off its first and last coordinate: 0 for a
\* line along x, 90 for a line along y.
Bearing(geometry) ==
    IF geometry[1][2] = geometry[Len(geometry)][2] THEN 0 ELSE 90

\* angles.angle_line_geometries(.., deflection = True, degree = True)
angle_line_geometries(line_geometry_A, line_geometry_B) ==
    Abs(Bearing(line_geometry_A) - Bearing(line_geometry_B))

SharesNode(edges, ix_lineA, ix_lineB) ==
    {edges[ix_lineA].u, edges[ix_lineA].v} \cap {edges[ix_lineB].u, edges[ix_lineB].v} # {}

\* angles.is_continuation: endpoint adjacency and near-zero deflection.
is_continuation(ix_lineA, ix_lineB, edges) ==
    /\ SharesNode(edges, ix_lineA, ix_lineB)
    /\ angle_line_geometries(edges[ix_lineA].geometry, edges[ix_lineB].geometry) = 0

---------------------------------------------------------------------------
(* indirect_cluster *)

\* edges_gdf[(edges_gdf.u == n) | (edges_gdf.v == n)], in row order
EdgesAt(edges, n) ==
    SetToSeq({e \in DOMAIN edges : edges[e].u = n \/ edges[e].v = n})

DropId(s, ix) == SelectSeq(s, LAMBDA e : e # ix)

NullResult == [cluster |-> None, merged_line |-> <<>>, lines_traversed |-> <<>>,
               nodes_traversed |-> <<>>, last_node |-> None,
               clusters_traversed |-> <<>>, null |-> TRUE]

\* The state of the call when it reaches its while loop.
indirect_cluster_start(nodes, edges, clusters, ix_line, search_dir, specific_cluster, desired_cluster) ==
    LET coming_from == IF search_dir = "v" THEN edges[ix_line].v ELSE edges[ix_line].u
        other_node == IF search_dir = "v" THEN edges[ix_line].u ELSE edges[ix_line].v
    IN [ix_line |-> ix_line,
        specific_cluster |-> specific_cluster,
        desired_cluster |-> desired_cluster,
        coming_from |-> coming_from,
        other_node |-> other_node,
        line_coords |-> IF search_dir = "v" THEN edges[ix_line].geometry
                        ELSE Reverse(edges[ix_line].geometry),
        possible_matches |-> DropId(EdgesAt(edges, coming_from), ix_line),
        nodes_traversed |-> <<>>,
        lines_traversed |-> <<>>,
        clusters_traversed |-> <<>>,
        last_line |-> ix_line,
        found |-> FALSE,
        distance_start |->
            IF specific_cluster
            THEN Dist2(ClusterPoint(clusters, desired_cluster), NodePoint(nodes, coming_from))
            ELSE 0,
        cluster |-> None,
        last_node |-> None,
        result |-> NullResult,
        pc |-> "while"]

StepRefused_wrong_way(nodes, w, old_node, new_node) ==
    \/ new_node \in Range(w.nodes_traversed)
    \/ Dist2(NodePoint(nodes, new_node), NodePoint(nodes, w.other_node))
         > Dist2(NodePoint(nodes, old_node), NodePoint(nodes, w.other_node))

\* The walk's anti-backtracking and cycle guard (lines 184 and 192): TRUE when
\* the step from old_node to new_node is refused.
StepRefused(nodes, w, old_node, new_node) ==
    \/ new_node \in Range(w.nodes_traversed)
    \/ Dist2(NodePoint(nodes, new_node), NodePoint(nodes, w.other_node))
         < Dist2(NodePoint(nodes, old_node), NodePoint(nodes, w.other_node))

TargetLost_never(nodes, clusters, w) == FALSE

\* The targeted-mode check at the head of the loop (lines 156-158).
TargetLost(nodes, clusters, w) ==
    /\ w.specific_cluster
    /\ Dist2(ClusterPoint(clusters, w.desired_cluster), NodePoint(nodes, w.coming_from))
         > w.distance_start

FirstContinuation_last(edges, w, matches) ==
    LET angle == [e \in Range(matches) |->
                     angle_line_geometries(edges[w.last_line].geometry, edges[e].geometry)]
        sorted == SortByKey(matches, angle)
        conts == SelectSeq(sorted, LAMBDA e : is_continuation(w.last_line, e, edges))
    IN IF conts = <<>> THEN None ELSE conts[Len(conts)]

\* The connector the for loop of lines 171-228 acts on: the first row, in
\* ascending angle order, that is a continuation of last_line (the rows before
\* it are dropped); None when no row is.
FirstContinuation(edges, w, matches) ==
    LET angle == [e \in Range(matches) |->
                     angle_line_geometries(edges[w.last_line].geometry, edges[e].geometry)]
        sorted == SortByKey(matches, angle)
        conts == SelectSeq(sorted, LAMBDA e : is_continuation(w.last_line, e, edges))
    IN IF conts = <<>> THEN None ELSE Head(conts)

NoContinuation_keeps_rows(w) == w

\* Lines 171-174 when no row is a continuation: every row is dropped.
NoContinuation(w) == [w EXCEPT !.possible_matches = <<>>]

TraversedNode_new(uCP, vCP, coming_from) == coming_from

\* Lines 200-206 and 218-224: the node appended to nodes_traversed, coming_from
\* being by then the node the step has reached.
TraversedNode(uCP, vCP, coming_from) == IF vCP = coming_from THEN uCP ELSE vCP

keeps_walking_unclustered(w, cluster) == cluster = None

\* The test of line 196: the node reached has no cluster or, in a targeted
\* search, a cluster that is not the desired one, and the walk goes on.
keeps_walking(w, cluster) ==
    cluster = None \/ (w.specific_cluster /\ cluster # w.desired_cluster)

\* One iteration of the while loop of lines 153-228.
indirect_cluster_iter(nodes, edges, clusters, w) ==
    IF Len(w.possible_matches) = 0 THEN [w EXCEPT !.pc = "null"]
    ELSE IF TargetLost(nodes, clusters, w) THEN [w EXCEPT !.pc = "null"]
    ELSE
    LET matches == DropId(w.possible_matches, w.last_line)
    IN IF Len(matches) = 0 THEN [w EXCEPT !.pc = "null"]
       ELSE
       LET connector == FirstContinuation(edges, w, matches)
       IN IF connector = None THEN NoContinuation(w)
          ELSE
          LET uCP == edges[connector].u
              vCP == edges[connector].v
              forward == (uCP = w.coming_from)
              new_node == IF forward THEN vCP ELSE uCP
              old_node == IF forward THEN uCP ELSE vCP
              cluster == nodes[new_node].cluster
              appended == TraversedNode(uCP, vCP, new_node)
              coords == IF vCP = new_node THEN edges[connector].geometry
                        ELSE Reverse(edges[connector].geometry)
              moved == [w EXCEPT !.coming_from = new_node, !.cluster = cluster]
          IN IF StepRefused(nodes, w, old_node, new_node)
             THEN [moved EXCEPT !.possible_matches = <<>>]
             ELSE IF keeps_walking(w, cluster)
             THEN [moved EXCEPT
                      !.lines_traversed = Append(@, connector),
                      !.last_line = connector,
                      !.possible_matches = EdgesAt(edges, new_node),
                      !.nodes_traversed = Append(@, appended),
                      !.line_coords = @ \o coords,
                      !.clusters_traversed =
                          IF w.specific_cluster /\ cluster # None
                          THEN Append(@, cluster) ELSE @]
             ELSE [moved EXCEPT
                      !.found = TRUE,
                      !.lines_traversed = Append(@, connector),
                      !.nodes_traversed = Append(@, appended),
                      !.last_node = IF vCP = new_node THEN vCP ELSE uCP,
                      !.line_coords = @ \o coords,
                      !.pc = "found"]

\* Lines 229-235: what a call that left the loop with found = True returns.
indirect_cluster_result(nodes, w) ==
    IF w.pc = "null" THEN NullResult
    ELSE [cluster |-> w.cluster,
          merged_line |-> w.line_coords,
          lines_traversed |-> w.lines_traversed,
          nodes_traversed |-> w.nodes_traversed,
          last_node |-> w.last_node,
          clusters_traversed |->
              IF Len(w.clusters_traversed) = 0 /\ w.specific_cluster
              THEN LET withc == SelectSeq(w.nodes_traversed,
                                          LAMBDA n : nodes[n].cluster # None)
                   IN [i \in 1..Len(withc) |-> nodes[withc[i]].cluster]
              ELSE w.clusters_traversed,
          null |-> FALSE]

RECURSIVE indirect_cluster_run(_, _, _, _)
indirect_cluster_run(nodes, edges, clusters, w) ==
    IF w.pc # "while" THEN w
    ELSE indirect_cluster_run(nodes, edges, clusters,
                              indirect_cluster_iter(nodes, edges, clusters, w))

\* The whole call.
indirect_cluster(nodes, edges, clusters, ix_line, search_dir, specific_cluster, desired_cluster) ==
    indirect_cluster_result(nodes,
        indirect_cluster_run(nodes, edges, clusters,
            indirect_cluster_start(nodes, edges, clusters, ix_line, search_dir,
                                   specific_cluster, desired_cluster)))

---------------------------------------------------------------------------
(* Line geometry *)

Sign(a) == IF a > 0 THEN 1 ELSE IF a < 0 THEN -1 ELSE 0

\* The length of a segment that runs along one axis.
SegLength(p, q) == Abs(p[1] - q[1]) + Abs(p[2] - q[2])

RECURSIVE LengthFrom(_, _)
LengthFrom(geometry, i) ==
    IF i >= Len(geometry) THEN 0
    ELSE SegLength(geometry[i], geometry[i + 1]) + LengthFrom(geometry, i + 1)

\* LineString.length
LineLength(geometry) == LengthFrom(geometry, 1)

RECURSIVE MomentFrom(_, _, _)
\* The sum over the segments of length * (sum of the two end coordinates k).
MomentFrom(geometry, i, k) ==
    IF i >= Len(geometry) THEN 0
    ELSE SegLength(geometry[i], geometry[i + 1]) * (geometry[i][k] + geometry[i + 1][k])
           + MomentFrom(geometry, i + 1, k)

\* Twice LineString.centroid: the segments' midpoints weighted by length.  The
\* division is exact for a straight line and for a line that runs one way along
\* an axis, which every line of the input tables and every merged line is.
Centroid2(geometry) ==
    <<MomentFrom(geometry, 1, 1) \div LineLength(geometry),
      MomentFrom(geometry, 1, 2) \div LineLength(geometry)>>

RECURSIVE AlongLine2(_, _, _)
\* Twice the point at distance d2 / 2 along the line from its i-th coordinate.
AlongLine2(geometry, i, d2) ==
    IF i = Len(geometry) THEN <<2 * geometry[i][1], 2 * geometry[i][2]>>
    ELSE LET p == geometry[i]
             q == geometry[i + 1]
         IN IF d2 <= 2 * SegLength(p, q)
            THEN <<2 * p[1] + Sign(q[1] - p[1]) * d2, 2 * p[2] + Sign(q[2] - p[2]) * d2>>
            ELSE AlongLine2(geometry, i + 1, d2 - 2 * SegLength(p, q))

\* Twice line.interpolate(0.5, normalized = True)
MidPoint2(geometry) == AlongLine2(geometry, 1, LineLength(geometry))

\* Point.distance: exact between two points on a common axis line, rounded
\* down to an integer otherwise.
Dist(p, q) ==
    IF p[1] = q[1] THEN Abs(p[2] - q[2])
    ELSE IF p[2] = q[2] THEN Abs(p[1] - q[1])
    ELSE CHOOSE r \in 0..(Abs(p[1] - q[1]) + Abs(p[2] - q[2])) :
            r * r <= Dist2(p, q) /\ Dist2(p, q) < (r + 1) * (r + 1)

\* angles.is_parallel(.., hard = True)
is_parallel(line_geometry_A, line_geometry_B) ==
    angle_line_geometries(line_geometry_A, line_geometry_B) = 0

RemoveAt(s, i) == SubSeq(s, 1, i - 1) \o SubSeq(s, i + 1, Len(s))

RECURSIVE Equalise(_, _)
\* The longer coordinate list loses its middle coordinates.
Equalise(long, n) ==
    IF Len(long) <= n THEN long ELSE Equalise(RemoveAt(long, (Len(long) \div 2) + 1), n)

\* utilities.center_line_coords: the midpoints of the coordinate pairs.
center_line_coords(line_geometry_A, line_geometry_B) ==
    LET n == IF Len(line_geometry_A) < Len(line_geometry_B)
             THEN Len(line_geometry_A) ELSE Len(line_geometry_B)
        A == Equalise(line_geometry_A, n)
        B == Equalise(line_geometry_B, n)
    IN [i \in 1..n |-> <<(A[i][1] + B[i][1]) \div 2, (A[i][2] + B[i][2]) \div 2>>]

CentroidLimit == 100

center_line_cluster_unchecked(line_geometries, nodes, clusters, cluster_from, cluster_to, one_cluster) ==
    LET coord_from == IF one_cluster THEN NodePoint(nodes, cluster_from)
                      ELSE ClusterPoint(clusters, cluster_from)
        coord_to == ClusterPoint(clusters, cluster_to)
        cl_coords == center_line_coords(line_geometries[1], line_geometries[2])
    IN [i \in 1..Len(cl_coords) |->
           IF i = Len(cl_coords) THEN coord_to ELSE IF i = 1 THEN coord_from ELSE cl_coords[i]]

\* center_line_cluster; the empty sequence is the None it returns.
center_line_cluster(line_geometries, nodes, clusters, cluster_from, cluster_to, one_cluster) ==
    IF Dist2(Centroid2(line_geometries[1]), Centroid2(line_geometries[2]))
         > 4 * CentroidLimit * CentroidLimit
    THEN <<>>
    ELSE center_line_cluster_unchecked(line_geometries, nodes, clusters, cluster_from, cluster_to, one_cluster)

---------------------------------------------------------------------------
(* The dissolvers *)

\* What a dissolver hands back: merged is False for its None, raised tells
\* that it ended in an exception; guard names the guard that did not hold.
Dissolved(merged, raised, edges, interpolation, guard, cl) ==
    [merged |-> merged, raised |-> raised, edges |-> edges,
     interpolation |-> interpolation, guard |-> guard, cl |-> cl]

\* interpolate_on_center_line projects the traversed nodes on the centerline:
\* it needs a centerline to project on.
interpolate_on_center_line(ix_line, center_line, edges) ==
    [raised |-> center_line = <<>>, edges |-> edges]

NamesDiffer_never(edges, ix_lineA, ix_lineB) == FALSE

\* Lines 289-290
NamesDiffer(edges, ix_lineA, ix_lineB) ==
    /\ edges[ix_lineA].name # None
    /\ edges[ix_lineB].name # None
    /\ edges[ix_lineA].name # edges[ix_lineB].name

\* Lines 295-305: the test of line 295 compares the distance of a point to
\* itself with another distance.
EndsStaggered(A, B) ==
    LET crossed == Dist2(A[1], A[1]) > Dist2(A[1], B[Len(B)])
        dist_SS == IF crossed THEN Dist2(A[1], B[Len(B)]) ELSE Dist2(A[1], B[1])
        dist_EE == IF crossed THEN Dist2(A[Len(A)], B[1]) ELSE Dist2(A[Len(A)], B[Len(B)])
    IN 4 * dist_SS > 9 * dist_EE \/ 4 * dist_EE > 9 * dist_SS

\* Lines 312-325: what dissolve_dual_lines does with the centerline cl.
dual_lines_set(ix_lineA, edges, interpolation, direction, cl) ==
    IF cl = <<>> THEN Dissolved(FALSE, FALSE, edges, interpolation, "centroid", <<>>)
    ELSE IF interpolation
    THEN Dissolved(TRUE, interpolate_on_center_line(ix_lineA, cl, edges).raised,
                   interpolate_on_center_line(ix_lineA, cl, edges).edges, TRUE, "none", cl)
    ELSE Dissolved(TRUE, FALSE,
                   [edges EXCEPT ![ix_lineA].new_geo = TRUE,
                                 ![ix_lineA].geometry =
                                     IF direction = "u" THEN Reverse(cl) ELSE cl],
                   FALSE, "none", cl)

is_interpolation_never(nodes_traversed) == FALSE

\* Lines 286 and 335: interpolation = len(nodes_traversed) > 0
is_interpolation(nodes_traversed) == Len(nodes_traversed) > 0

dissolve_dual_lines(ix_lines, line_geometries, nodes, edges, clusters, cluster, goal, first_node, nodes_traversed, direction, one_cluster) ==
    IF ~one_cluster /\ NamesDiffer(edges, ix_lines[1], ix_lines[2])
    THEN Dissolved(FALSE, FALSE, edges, is_interpolation(nodes_traversed), "name", <<>>)
    ELSE IF \/ 2 * LineLength(line_geometries[1]) > 3 * LineLength(line_geometries[2])
            \/ 2 * LineLength(line_geometries[2]) > 3 * LineLength(line_geometries[1])
    THEN Dissolved(FALSE, FALSE, edges, is_interpolation(nodes_traversed), "length", <<>>)
    ELSE IF ~one_cluster /\ EndsStaggered(line_geometries[1], line_geometries[2])
    THEN Dissolved(FALSE, FALSE, edges, is_interpolation(nodes_traversed), "ends", <<>>)
    ELSE dual_lines_set(ix_lines[1], edges, is_interpolation(nodes_traversed), direction,
                        center_line_cluster(line_geometries, nodes, clusters,
                                            IF one_cluster THEN first_node ELSE cluster,
                                            goal, one_cluster))

RECURSIVE SumMidDistanceTo(_, _, _)
SumMidDistanceTo(dict_lines, i, j) ==
    IF j = 0 THEN 0
    ELSE (IF j = i THEN 0
          ELSE Dist(MidPoint2(dict_lines[i].line), MidPoint2(dict_lines[j].line)))
         + SumMidDistanceTo(dict_lines, i, j - 1)

\* Twice the summed distance of line i's midpoint to the other midpoints: the
\* mean distance of lines 349-357 up to the common factor.
SumMidDistance(dict_lines, i) == SumMidDistanceTo(dict_lines, i, Len(dict_lines))

RemoveFirstTwo(dict_lines, order) ==
    SelectSeq(dict_lines, LAMBDA entry :
        \A k \in {1, 2} : dict_lines[order[k]].key # entry.key)

\* Lines 358-362 and 385-389: the lines without the last two of the order.
RemoveLastTwo(dict_lines, order) ==
    SelectSeq(dict_lines, LAMBDA entry :
        \A k \in {Len(order) - 1, Len(order)} : dict_lines[order[k]].key # entry.key)

\* Lines 346-362 and 374-389: one iteration of the while loop, in which the
\* two lines of the greatest mean distance to the others go.
reduce_once(dict_lines) ==
    RemoveLastTwo(dict_lines,
                  SortByKey([i \in 1..Len(dict_lines) |-> i],
                            [i \in 1..Len(dict_lines) |-> SumMidDistance(dict_lines, i)]))

RECURSIVE ReduceLines(_, _)
\* Lines 345-362 and 373-389: the two lines farthest from the others go, until
\* no more than residual lines are left.
ReduceLines(dict_lines, residual) ==
    IF Len(dict_lines) <= residual THEN dict_lines
    ELSE ReduceLines(reduce_once(dict_lines), residual)

\* Lines 391-401: the pair of lines whose midpoints are farthest apart, the
\* first such pair in iteration order; empty when all midpoints coincide.
secondary_lines(dict_lines) ==
    LET n == Len(dict_lines)
        D(i, j) == Dist(MidPoint2(dict_lines[i].line), MidPoint2(dict_lines[j].line))
        pairs == {p \in (1..n) \X (1..n) : p[1] # p[2]}
        Before(p, q) == p[1] < q[1] \/ (p[1] = q[1] /\ p[2] < q[2])
        best == {p \in pairs :
                    /\ D(p[1], p[2]) > 0
                    /\ \A q \in pairs :
                          \/ D(q[1], q[2]) < D(p[1], p[2])
                          \/ (D(q[1], q[2]) = D(p[1], p[2]) /\ ~Before(q, p))}
    IN IF best = {} THEN {} ELSE LET p == CHOOSE p \in best : TRUE IN {p[1], p[2]}

\* Lines 403-404
CentralLine(dict_lines) ==
    LET others == SelectSeq([i \in 1..Len(dict_lines) |-> i],
                            LAMBDA i : i \notin secondary_lines(dict_lines))
    IN dict_lines[others[1]].line

\* Lines 406-417: what dissolve_multiple_dual_lines does with the line cl
\* it arrived at, which is None (the empty sequence) when center_line_cluster
\* returned None.
multiple_lines_set(ix_line, edges, interpolation, direction, cl) ==
    IF interpolation
    THEN Dissolved(TRUE, interpolate_on_center_line(ix_line, cl, edges).raised,
                   interpolate_on_center_line(ix_line, cl, edges).edges, TRUE,
                   IF cl = <<>> THEN "centroid" ELSE "none", cl)
    ELSE IF direction = "u" /\ cl = <<>>
    THEN Dissolved(TRUE, TRUE, edges, FALSE, "centroid", cl)
    ELSE Dissolved(TRUE, FALSE,
                   [edges EXCEPT ![ix_line].geometry =
                                     IF direction = "u" THEN Reverse(cl) ELSE cl,
                                 ![ix_line].new_geo = TRUE],
                   FALSE, IF cl = <<>> THEN "centroid" ELSE "none", cl)

\* Lines 364-369 and 391-404: the centerline of the two lines left, or the
\* central one of the three.
multiple_lines_center(residual, nodes, clusters, cluster_from, goal, one_cluster) ==
    IF Len(residual) % 2 = 0
    THEN center_line_cluster(<<residual[1].line, residual[2].line>>, nodes, clusters,
                             cluster_from, goal, one_cluster)
    ELSE CentralLine(residual)

\* Lines 337-342: some line is more than one and a half times as long as
\* another.
lines_too_long(line_geometries) ==
    \E i, j \in 1..Len(line_geometries) :
        /\ line_geometries[i] # line_geometries[j]
        /\ 2 * LineLength(line_geometries[i]) > 3 * LineLength(line_geometries[j])

dissolve_multiple_dual_lines(ix_lines, line_geometries, nodes, edges, clusters, cluster, goal, first_node, nodes_traversed, direction, one_cluster) ==
    IF lines_too_long(line_geometries)
    THEN Dissolved(FALSE, FALSE, edges, is_interpolation(nodes_traversed), "length", <<>>)
    ELSE multiple_lines_set(ix_lines[1], edges, is_interpolation(nodes_traversed), direction,
             multiple_lines_center(
                 ReduceLines([i \in 1..Len(ix_lines) |->
                                 [key |-> ix_lines[i], line |-> line_geometries[i]]],
                             IF Len(ix_lines) % 2 = 0 THEN 2 ELSE 3),
                 nodes, clusters, IF one_cluster THEN first_node ELSE cluster, goal,
                 one_cluster))

is_possible_dual(ix_lineA, ix_lineB, edges, processed_, one_cluster) ==
    /\ ix_lineB \notin processed_
    /\ IF ~one_cluster
       THEN /\ ~SharesNode(edges, ix_lineA, ix_lineB)
            /\ is_parallel(edges[ix_lineA].geometry, edges[ix_lineB].geometry)
       ELSE ~is_continuation(ix_lineA, ix_lineB, edges)

---------------------------------------------------------------------------
(* The dissolve passes *)

\* _assign_cluster_edges: the cluster of each end, and for an end without one
\* the cluster a walk from that end reaches.
assign_cluster_edges(nodes, edges, clusters) ==
    [e \in DOMAIN edges |->
        LET clus_u == nodes[edges[e].u].cluster
            clus_v == nodes[edges[e].v].cluster
        IN [clus_u |-> clus_u,
            clus_v |-> clus_v,
            clus_uR |-> IF clus_u # None THEN None
                        ELSE indirect_cluster(nodes, edges, clusters, e, "u", FALSE, None).cluster,
            clus_vR |-> IF clus_v # None THEN None
                        ELSE indirect_cluster(nodes, edges, clusters, e, "v", FALSE, None).cluster]
           @@ edges[e]]

\* Lines 454-456 and 690-691: the columns a pass resets or adds.
StartEdges(edges) == [e \in DOMAIN edges |-> [new_geo |-> FALSE] @@ edges[e]]

StartClusters(clusters) == [c \in DOMAIN clusters |-> [clusters[c] EXCEPT !.keep = FALSE]]

list_cluster_ascending(clusters) ==
    SortByKey(SetToSeq(DOMAIN clusters), [c \in DOMAIN clusters |-> clusters[c].degree])

\* Lines 463-464: the clusters by descending degree.
list_cluster(clusters) ==
    SortByKey(SetToSeq(DOMAIN clusters), [c \in DOMAIN clusters |-> 0 - clusters[c].degree])

\* Lines 467-471: the edges at a cluster, longest first; an only edge is
\* not scanned.
edges_tmp(original, cluster) ==
    LET rows == SetToSeq({e \in DOMAIN original :
                            /\ original[e].clus_u = cluster \/ original[e].clus_v = cluster
                            /\ original[e].clus_u # original[e].clus_v})
        sorted == SortByKey(rows, [e \in DOMAIN original |-> 0 - original[e].length])
    IN IF Len(sorted) = 1 THEN <<>> ELSE sorted

\* Lines 490-505 and 711-726: a candidate row, turned to lead away from the
\* anchor when it leads to it.
orientate(row, ix, turn) ==
    [edgeID |-> ix,
     u |-> IF turn THEN row.v ELSE row.u,
     v |-> IF turn THEN row.u ELSE row.v,
     clus_u |-> IF turn THEN row.clus_v ELSE row.clus_u,
     clus_v |-> IF turn THEN row.clus_u ELSE row.clus_v,
     clus_uR |-> IF turn THEN row.clus_vR ELSE row.clus_uR,
     clus_vR |-> IF turn THEN row.clus_uR ELSE row.clus_vR,
     geometry |-> IF turn THEN Reverse(row.geometry) ELSE row.geometry,
     dir |-> IF turn THEN "u" ELSE "v",
     forced_cluster |-> FALSE,
     nodes_traversed |-> <<>>,
     lines_traversed |-> <<>>,
     clusters_traversed |-> <<>>,
     last_node |-> None,
     null |-> FALSE,
     drop |-> FALSE]

\* The cluster a row leads to, directly or by a walk.
GoalOf(row) == IF row.clus_v # None THEN row.clus_v ELSE row.clus_vR

RowOf(rows, ix) == rows[CHOOSE i \in 1..Len(rows) : rows[i].edgeID = ix]

RECURSIVE Flatten(_)
Flatten(lists) == IF lists = <<>> THEN <<>> ELSE Head(lists) \o Flatten(Tail(lists))

force_cluster_keeps_direct(row, forced_cluster) ==
    [row EXCEPT !.forced_cluster = TRUE, !.clus_vR = forced_cluster]

\* Lines 523-526: the row of a candidate the targeted walk brought to the
\* goal.
force_cluster(row, forced_cluster) ==
    [row EXCEPT !.forced_cluster = TRUE, !.clus_vR = forced_cluster, !.clus_v = None]

\* Lines 514-527: a candidate that leads elsewhere stays only if a targeted
\* walk from its far end reaches the goal.
ForceGoal(nodes, original, clusters, rows, goal) ==
    LET Forced(row) ==
            IF GoalOf(row) = goal THEN row
            ELSE IF indirect_cluster(nodes, original, clusters, row.edgeID, row.dir,
                                     TRUE, goal).cluster = goal
                 THEN force_cluster(row, goal)
                 ELSE [row EXCEPT !.drop = TRUE]
    IN SelectSeq([i \in 1..Len(rows) |-> Forced(rows[i])], LAMBDA row : ~row.drop)

SharesEnd(A, B) ==
    \/ A[1] = B[1]
    \/ A[1] = B[Len(B)]
    \/ A[Len(A)] = B[1]
    \/ A[Len(A)] = B[Len(B)]

RECURSIVE RemoveSharedEnds(_)
\* Lines 569-589: of two lines that start or end at the same coordinate the
\* longer one goes; the scan restarts after each removal.
RemoveSharedEnds(rows) ==
    LET pairs == {p \in (1..Len(rows)) \X (1..Len(rows)) :
                    /\ p[1] < p[2]
                    /\ SharesEnd(rows[p[1]].geometry, rows[p[2]].geometry)
                    /\ LineLength(rows[p[1]].geometry) # LineLength(rows[p[2]].geometry)}
        first == CHOOSE p \in pairs : \A q \in pairs :
                    p[1] < q[1] \/ (p[1] = q[1] /\ p[2] <= q[2])
        to_remove == IF LineLength(rows[first[1]].geometry) > LineLength(rows[first[2]].geometry)
                     THEN first[1] ELSE first[2]
    IN IF pairs = {} THEN rows ELSE RemoveSharedEnds(RemoveAt(rows, to_remove))

RECURSIVE RemoveSharedLines(_)
\* Lines 608-620: of two lines whose walks share an edge the later one goes.
RemoveSharedLines(rows) ==
    LET pairs == {p \in (1..Len(rows)) \X (1..Len(rows)) :
                    /\ p[1] < p[2]
                    /\ Range(rows[p[1]].lines_traversed) \cap Range(rows[p[2]].lines_traversed) # {}}
        first == CHOOSE p \in pairs : \A q \in pairs :
                    p[1] < q[1] \/ (p[1] = q[1] /\ p[2] <= q[2])
    IN IF pairs = {} THEN rows ELSE RemoveSharedLines(RemoveAt(rows, first[2]))

\* A row with the merged line and the lists of the walk r.
Walked(row, r) ==
    [row EXCEPT !.geometry = r.merged_line,
                !.lines_traversed = r.lines_traversed,
                !.nodes_traversed = r.nodes_traversed,
                !.clusters_traversed = r.clusters_traversed,
                !.last_node = r.last_node,
                !.null = r.null]

\* Lines 594-603 and 760-763: the rows that do not end at a cluster are
\* walked on, and take the walk's merged line and its lists.
WalkRows(nodes, original, clusters, rows, goal, targeted) ==
    [i \in 1..Len(rows) |->
        IF rows[i].clus_v # None THEN rows[i]
        ELSE Walked(rows[i],
                    indirect_cluster(nodes, original, clusters, rows[i].edgeID, rows[i].dir,
                                     targeted /\ rows[i].forced_cluster,
                                     IF targeted /\ rows[i].forced_cluster THEN goal ELSE None))]

\* What one turn of a road loop did.  outcome is "skipped" (the road was
\* processed), "abandoned" (a continue), "committed" or "raised" (an
\* exception left the pass); why names the line that decided.  t holds the
\* tables and the loop variables the turn started with.
Attempt(outcome, why, t, goal, rows, n_possible, d, between, edges, clusters, processed_, to_drop_) ==
    [outcome |-> outcome, why |-> why, anchor |-> t.anchor, goal |-> goal, road |-> t.road,
     ix_lines |-> [i \in 1..Len(rows) |-> rows[i].edgeID],
     line_geometries |-> [i \in 1..Len(rows) |-> rows[i].geometry],
     n_possible |-> n_possible,
     lines_traversed |-> Flatten([i \in 1..Len(rows) |-> rows[i].lines_traversed]),
     nodes_traversed |-> Flatten([i \in 1..Len(rows) |-> rows[i].nodes_traversed]),
     guard |-> d.guard, interpolation |-> d.interpolation, cl |-> d.cl,
     between |-> between,
     rows |-> [i \in 1..Len(rows) |->
                  [edgeID |-> rows[i].edgeID, dir |-> rows[i].dir,
                   forced_cluster |-> rows[i].forced_cluster,
                   clus_u |-> rows[i].clus_u, clus_uR |-> rows[i].clus_uR,
                   clus_v |-> rows[i].clus_v, clus_vR |-> rows[i].clus_vR]],
     edges |-> edges, clusters |-> clusters, processed |-> processed_, to_drop |-> to_drop_]

NoDissolve == [guard |-> "none", interpolation |-> FALSE, cl |-> <<>>]

Abandoned_marks_road(why, t, goal, rows, n_possible, d) ==
    Attempt("abandoned", why, t, goal, rows, n_possible, d, {},
            t.edges, t.clusters, t.processed \cup {t.road}, t.to_drop)

\* A turn that ends in a continue.
Abandoned(why, t, goal, rows, n_possible, d) ==
    Attempt("abandoned", why, t, goal, rows, n_possible, d, {},
            t.edges, t.clusters, t.processed, t.to_drop)

\* A turn that ends in an exception.
Raised(why, t, goal, rows, n_possible, d) ==
    Attempt("raised", why, t, goal, rows, n_possible, d, {},
            t.edges, t.clusters, t.processed, t.to_drop)

\* Lines 552-557, 631-640, 746-751 and 766-775: two candidate rows go to
\* dissolve_dual_lines, more to dissolve_multiple_dual_lines.
Dissolve(rows, n_possible, nodes, edges, clusters, cluster, goal, one_cluster) ==
    IF n_possible = 2
    THEN dissolve_dual_lines([i \in 1..Len(rows) |-> rows[i].edgeID],
                             [i \in 1..Len(rows) |-> rows[i].geometry],
                             nodes, edges, clusters, cluster, goal, rows[1].u,
                             Flatten([i \in 1..Len(rows) |-> rows[i].nodes_traversed]),
                             rows[1].dir, one_cluster)
    ELSE dissolve_multiple_dual_lines([i \in 1..Len(rows) |-> rows[i].edgeID],
                             [i \in 1..Len(rows) |-> rows[i].geometry],
                             nodes, edges, clusters, cluster, goal, rows[1].u,
                             Flatten([i \in 1..Len(rows) |-> rows[i].nodes_traversed]),
                             rows[1].dir, one_cluster)

\* Lines 663-664 and 795-796
Pedestrian(original, edges, processed_, ix_line) ==
    IF \E e \in processed_ : original[e].pedestrian = 1
    THEN [edges EXCEPT ![ix_line].pedestrian = 1]
    ELSE edges

\* Lines 650-655
Between(original, nodes_traversed, clusters) ==
    {e \in DOMAIN original :
        \/ original[e].u \in nodes_traversed /\ original[e].v \in nodes_traversed
        \/ original[e].clus_u \in clusters /\ original[e].v \in nodes_traversed
        \/ original[e].clus_v \in clusters /\ original[e].u \in nodes_traversed
        \/ original[e].clus_uR \in clusters /\ original[e].v \in nodes_traversed
        \/ original[e].clus_vR \in clusters /\ original[e].u \in nodes_traversed}

Survivor_dropped(to_drop_, ix_line) == to_drop_

\* Lines 660 and 792: filter(lambda a: a != ix_lines[0], to_drop)
Survivor(to_drop_, ix_line) == to_drop_ \ {ix_line}

Keep_forgotten(clusters, kept) == clusters

\* Lines 662 and 794
Keep(clusters, kept) ==
    [c \in DOMAIN clusters |->
        IF c \in kept THEN [clusters[c] EXCEPT !.keep = TRUE] ELSE clusters[c]]

\* Lines 648-664: the commit of simplify_dual_lines.
commit_clusters(t, goal, rows, n, d) ==
    LET nodes_traversed == Range(Flatten([i \in 1..Len(rows) |-> rows[i].nodes_traversed]))
        selected == Between(t.original, nodes_traversed, {t.anchor, goal})
        between == selected
                     \cup Range(Flatten([i \in 1..Len(rows) |-> rows[i].lines_traversed]))
                     \cup {rows[i].edgeID : i \in 1..Len(rows)}
        dropped == Survivor(t.to_drop \cup between, rows[1].edgeID)
        done == t.processed \cup {rows[1].edgeID} \cup dropped
    IN Attempt("committed", "merged", t, goal, rows, n, d, selected,
               Pedestrian(t.original, d.edges, done, rows[1].edgeID),
               Keep(t.clusters, {t.anchor, goal}), done, dropped)

\* Lines 753-754, 778-779 and 791-796: the commit of
\* simplify_dual_lines_nodes_to_cluster.
commit_nodes(t, goal, rows, n, d) ==
    LET nodes_traversed == Range(Flatten([i \in 1..Len(rows) |-> rows[i].nodes_traversed]))
        lines_traversed == Range(Flatten([i \in 1..Len(rows) |-> rows[i].lines_traversed]))
        between == {e \in DOMAIN t.original :
                       /\ t.original[e].u \in nodes_traversed
                       /\ t.original[e].v \in nodes_traversed}
        dropped == Survivor(t.to_drop \cup lines_traversed
                              \cup {rows[i].edgeID : i \in 1..Len(rows)} \cup between,
                            rows[1].edgeID)
        done == t.processed \cup {rows[1].edgeID} \cup dropped \cup lines_traversed \cup between
    IN Attempt("committed", "merged", t, goal, rows, n, d, between,
               Pedestrian(t.original, d.edges, done, rows[1].edgeID),
               Keep(t.clusters, {goal}), done, dropped)

\* Lines 558-560, 641-664, 752-754 and 776-796: what the dissolver handed
\* back decides between the continue and the commit.
road_merged(t, goal, rows, n, d) ==
    IF d.raised THEN Raised("dissolve", t, goal, rows, n, d)
    ELSE IF ~d.merged
    THEN Attempt("abandoned", "not merged", t, goal, rows, n, d, {},
                 d.edges, t.clusters, t.processed, t.to_drop)
    ELSE IF t.pass = "clusters" THEN commit_clusters(t, goal, rows, n, d)
    ELSE commit_nodes(t, goal, rows, n, d)

road_dissolve(t, goal, rows, n) ==
    road_merged(t, goal, rows, n,
                Dissolve(rows, n, t.nodes, t.edges, t.clusters,
                         IF t.pass = "clusters" THEN t.anchor ELSE None, goal,
                         t.pass = "nodes"))

\* Lines 605-640 and 765-775: the walked rows; in the cluster pass those of
\* more than two that share a traversed edge with an earlier row are gone.
road_unshared(t, goal, rows, n) ==
    IF Len(rows) < 2 THEN Abandoned("shared lines", t, goal, rows, n, NoDissolve)
    ELSE IF n = 2 /\ Range(rows[1].lines_traversed) \cap Range(rows[2].lines_traversed) # {}
    THEN Abandoned("common lines", t, goal, rows, n, NoDissolve)
    ELSE road_dissolve(t, goal, rows, n)

\* Lines 594-628 and 760-765: a walk that found nothing leaves None where
\* the lists of its row are read.
road_walked(t, goal, rows, n, walked) ==
    IF \E i \in 1..Len(walked) : walked[i].null
    THEN Raised("null walk", t, goal, rows, n, NoDissolve)
    ELSE road_unshared(t, goal,
                       IF n > 2 /\ t.pass = "clusters" THEN RemoveSharedLines(walked)
                       ELSE walked, n)

\* Lines 591-603 and 758-763
road_option2(t, goal, rows, n) ==
    IF Len(rows) < 2 THEN Abandoned("shared ends", t, goal, rows, n, NoDissolve)
    ELSE road_walked(t, goal, rows, n,
                     WalkRows(t.nodes, t.original, t.clusters, rows, goal,
                              t.pass = "clusters"))

\* Lines 529-589 and 728-758: the bundle, and which option it takes.
road_bundle(t, goal, possible_dual_lines) ==
    LET n == Len(possible_dual_lines)
        c_v == [i \in 1..n |-> possible_dual_lines[i].clus_v]
    IN IF n = 1 THEN Abandoned("alone", t, goal, possible_dual_lines, n, NoDissolve)
       ELSE IF (\A i \in 1..n : c_v[i] = c_v[1]) /\ None \notin Range(c_v)
       THEN road_dissolve(t, goal, possible_dual_lines, n)
       ELSE IF None \notin Range(c_v)
       THEN Abandoned("not done", t, goal, possible_dual_lines, n, NoDissolve)
       ELSE road_option2(t, goal,
                         IF n > 2 /\ t.pass = "clusters"
                         THEN RemoveSharedEnds(possible_dual_lines)
                         ELSE possible_dual_lines, n)

\* Lines 507-527: the goal of the road, and the candidates that reach it.
road_goal(t, oriented, goal) ==
    IF goal = None \/ goal = t.anchor
    THEN Abandoned("no goal", t, goal, oriented, 0, NoDissolve)
    ELSE road_bundle(t, goal, ForceGoal(t.nodes, t.original, t.clusters, oriented, goal))

\* Lines 476-505: the candidates of the road, oriented.
road_candidates(t, candidates) ==
    IF Len(candidates) < 2
    THEN Abandoned("no candidate", t, None, <<>>, 0, NoDissolve)
    ELSE road_goal(t,
                   [i \in 1..Len(candidates) |->
                       orientate(t.original[candidates[i]], candidates[i],
                                 t.original[candidates[i]].clus_v = t.anchor)],
                   GoalOf(orientate(t.original[t.road], t.road,
                                    t.original[t.road].clus_v = t.anchor)))

\* Lines 473-664: one turn of the road loop of simplify_dual_lines.
simplify_dual_lines_road(t) ==
    IF t.road \in t.processed
    THEN Attempt("skipped", "processed", t, None, <<>>, 0, NoDissolve, {},
                 t.edges, t.clusters, t.processed, t.to_drop)
    ELSE road_candidates(t, SelectSeq(t.tmp, LAMBDA r :
             r = t.road \/ is_possible_dual(t.road, r, t.original, t.processed, FALSE)))

\* Lines 700-729: the goal of the road seen from the node, and the edges at
\* the node that lead to it.
node_goal(t, goal) ==
    IF goal = None THEN Abandoned("no goal", t, goal, <<>>, 0, NoDissolve)
    ELSE road_bundle(t, goal,
             SelectSeq([i \in 1..Len(t.tmp) |->
                           orientate(t.original[t.tmp[i]], t.tmp[i],
                                     t.original[t.tmp[i]].v = t.anchor)],
                       LAMBDA row :
                           /\ goal \in {row.clus_u, row.clus_uR, row.clus_v, row.clus_vR}
                           /\ row.clus_v = goal \/ row.clus_vR = goal))

\* Lines 697-796: one turn of the road loop of
\* simplify_dual_lines_nodes_to_cluster.
simplify_dual_lines_nodes_to_cluster_road(t) ==
    IF t.road \in t.processed
    THEN Attempt("skipped", "processed", t, None, <<>>, 0, NoDissolve, {},
                 t.edges, t.clusters, t.processed, t.to_drop)
    ELSE node_goal(t, GoalOf(orientate(t.original[t.road], t.road,
                                       t.original[t.road].v = t.anchor)))

---------------------------------------------------------------------------
(* reassign_edges *)

MoveEnd_not(line_coords, i, point) == line_coords

\* Lines 835, 838, 841-842, 855 and 862: line_coords[0] or line_coords[-1]
\* becomes the centroid of a kept cluster.
MoveEnd(line_coords, i, point) == [line_coords EXCEPT ![i] = point]

is_kept_always(clusters, c) == TRUE

\* Lines 830-866: clusters_gdf.loc[c].keep
is_kept(clusters, c) == clusters[c].keep

\* Lines 821-874: one row of the edge loop.  The row comes back with its u,
\* v and geometry written, or marked to be dropped (u = v).
reassign_row(nodes, clusters, row) ==
    LET cu == nodes[row.old_u].cluster
        cv == nodes[row.old_v].cluster
        line_coords == row.geometry
        last == Len(line_coords)
        First(c) == MoveEnd(line_coords, 1, ClusterPoint(clusters, c))
        Last(c) == MoveEnd(line_coords, last, ClusterPoint(clusters, c))
        Both(a, b) == MoveEnd(MoveEnd(line_coords, 1, ClusterPoint(clusters, a)),
                              last, ClusterPoint(clusters, b))
        Out(u, v, coords) == [row EXCEPT !.u = u, !.v = v, !.geometry = coords,
                                         !.drop = (u = v)]
    IN IF cu # None /\ cv # None
       THEN IF ~is_kept(clusters, cu) /\ ~is_kept(clusters, cv)
            THEN Out(row.old_u, row.old_v, line_coords)
            ELSE IF ~is_kept(clusters, cv) THEN Out(cu, row.old_v, First(cu))
            ELSE IF ~is_kept(clusters, cu) THEN Out(row.old_u, cv, Last(cv))
            ELSE Out(cu, cv, Both(cu, cv))
       ELSE IF cu = None /\ cv = None THEN Out(row.old_u, row.old_v, line_coords)
       ELSE IF cu = None
       THEN IF ~is_kept(clusters, cv) THEN Out(row.old_u, row.old_v, line_coords)
            ELSE Out(row.old_u, cv, Last(cv))
       ELSE IF ~is_kept(clusters, cu) THEN Out(row.old_u, row.old_v, line_coords)
            ELSE Out(cu, row.old_v, First(cu))

\* Lines 809-811: u and v become old_u and old_v, the new u and v are 0.
reassign_start(edges) ==
    [e \in DOMAIN edges |->
        [old_u |-> edges[e].u, old_v |-> edges[e].v, drop |-> FALSE] @@
        [edges[e] EXCEPT !.u = 0, !.v = 0]]

\* Lines 882-890: every kept cluster becomes a node at its centroid.
reassign_nodes(nodes, clusters) ==
    LET kept == {c \in DOMAIN clusters : clusters[c].keep}
    IN [n \in DOMAIN nodes \cup kept |->
           IF n \in kept
           THEN [x |-> clusters[n].x, y |-> clusters[n].y, cluster |-> None]
           ELSE nodes[n]]

\* The edge table after the loop: the rows with u = v are gone.
reassign_rows(nodes, clusters, edges) ==
    LET started == reassign_start(edges)
        rows == [e \in DOMAIN edges |-> reassign_row(nodes, clusters, started[e])]
    IN [e \in {i \in DOMAIN edges : ~rows[i].drop} |-> rows[e]]

\* reassign_edges up to its calls of correct_edges and clean_network; raised
\* when a row has no geometry to read coordinates from (line 823).
reassign_edges(nodes, edges, clusters) ==
    IF \E e \in DOMAIN edges : edges[e].geometry = <<>>
    THEN [raised |-> TRUE, nodes |-> nodes, edges |-> edges]
    ELSE [raised |-> FALSE,
          nodes |-> reassign_nodes(nodes, clusters),
          edges |-> reassign_rows(nodes, clusters, edges)]

---------------------------------------------------------------------------
(* Input tables *)

NoScan == [pass |-> "none", anchors |-> <<>>, ai |-> 0, tmp |-> <<>>, ri |-> 1]

NoWalk == [pc |-> "idle"]

NoAttempt == [outcome |-> "none"]

\* A straight edge between two nodes of a node table.
MkEdge(nodes, u, v, name, pedestrian) ==
    [u |-> u, v |-> v,
     geometry |-> <<NodePoint(nodes, u), NodePoint(nodes, v)>>,
     name |-> name,
     length |-> Abs(nodes[u].x - nodes[v].x) + Abs(nodes[u].y - nodes[v].y),
     pedestrian |-> pedestrian]

---------------------------------------------------------------------------
(* The input tables of the dissolve passes.  A "ladder" has a left and a     *)
(* right column of clustered nodes joined by parallel rows, a row being one  *)
(* edge or two edges through a middle node; the nodes of a column are joined *)
(* by rails inside their cluster.  A "fan" has the rows leave one hub node   *)
(* in different directions, each ending at a clustered node with a stub      *)
(* behind it.  One variation at a time is applied to a world.                *)

Rows == 4

Shapes == {"ladder", "fan", "chain", "knot"}

Kinds == {k \in [1..Rows -> {"none", "direct", "via"}] : k[1] # "none" /\ k[2] # "none"}

Variations == {"plain", "wide", "far60", "far80", "ped1", "ped4", "name", "noname",
               "flip1", "flip2", "mid"}

\* The rows of a world are 10 apart, far fewer than the 100 of line 262, or
\* in the variation "wide" 120 apart.
Gap(variation) == IF variation = "wide" THEN 120 ELSE 10

Splits == {2, Rows}

ClusterIds == <<101, 102, 103>>

WorldRow(n) == ((n - 1) % Rows) + 1

\* 0: left column or hub, 1: middle, 2: right column, 3: stub end
WorldCol(n) == (n - 1) \div Rows

Far(i, variation) ==
    IF i = 2 /\ variation = "far60" THEN 60
    ELSE IF i = 2 /\ variation = "far80" THEN 80 ELSE 40

ArmDir(i) ==
    CASE (i - 1) % 4 = 0 -> <<1, 0>>
      [] (i - 1) % 4 = 1 -> <<0, 1>>
      [] (i - 1) % 4 = 2 -> <<-1, 0>>
      [] OTHER -> <<0, -1>>

WorldPoint(shape, n, gap, variation) ==
    LET i == WorldRow(n)
        along == CASE WorldCol(n) = 0 -> 0
                   [] WorldCol(n) = 1 -> 20
                   [] WorldCol(n) = 2 -> Far(i, variation)
                   [] OTHER -> Far(i, variation) + 20
        r == (gap \div 10) * along * (1 + 3 * ((i - 1) \div 4))
    IN IF shape = "ladder" THEN <<along, gap * (i - 1)>>
       ELSE <<r * ArmDir(i)[1], r * ArmDir(i)[2]>>

WorldNodeIds(shape, kinds) ==
    {n \in 1..(4 * Rows) :
        /\ kinds[WorldRow(n)] # "none"
        /\ WorldCol(n) = 1 => kinds[WorldRow(n)] = "via"
        /\ WorldCol(n) = 0 => (shape = "ladder" \/ n = 1)
        /\ WorldCol(n) = 3 => shape = "fan"}

WorldCluster(shape, n, split, variation, left) ==
    CASE WorldCol(n) = 0 -> IF shape = "ladder" THEN left ELSE None
      [] WorldCol(n) = 1 -> IF variation = "mid" /\ WorldRow(n) = 2 THEN ClusterIds[3] ELSE None
      [] WorldCol(n) = 2 -> IF WorldRow(n) <= split
                            THEN (IF left = ClusterIds[1] THEN ClusterIds[2] ELSE ClusterIds[1])
                            ELSE ClusterIds[3]
      [] OTHER -> None

WorldNodes(shape, kinds, gap, split, variation, left) ==
    [n \in WorldNodeIds(shape, kinds) |->
        [x |-> WorldPoint(shape, n, gap, variation)[1],
         y |-> WorldPoint(shape, n, gap, variation)[2],
         cluster |-> WorldCluster(shape, n, split, variation, left)]]

\* The next row below row i that is there, 0 if there is none.
NextRow(kinds, i) ==
    IF \E j \in (i + 1)..Rows : kinds[j] # "none"
    THEN CHOOSE j \in (i + 1)..Rows :
            kinds[j] # "none" /\ \A k \in (i + 1)..(j - 1) : kinds[k] = "none"
    ELSE 0

\* The ends of edge e: ids 1..Rows are the rows (their first half), the next
\* Rows ids the second halves, then the left rails or the stubs, then the
\* right rails.
WorldEnds(shape, kinds, e) ==
    LET i == WorldRow(e)
        L == IF shape = "ladder" THEN i ELSE 1
        M == Rows + i
        R == 2 * Rows + i
        j == NextRow(kinds, i)
    IN CASE WorldCol(e) = 0 -> IF kinds[i] = "via" THEN <<L, M>> ELSE <<L, R>>
         [] WorldCol(e) = 1 -> <<M, R>>
         [] WorldCol(e) = 2 -> IF shape = "ladder" THEN <<i, j>> ELSE <<R, 3 * Rows + i>>
         [] OTHER -> <<R, 2 * Rows + j>>

WorldEdgeIds(shape, kinds, nodes) ==
    {e \in 1..(4 * Rows) :
        /\ kinds[WorldRow(e)] # "none"
        /\ WorldCol(e) = 1 => kinds[WorldRow(e)] = "via"
        /\ (WorldCol(e) = 2 /\ shape = "ladder") => NextRow(kinds, WorldRow(e)) # 0
        /\ WorldCol(e) = 3 =>
              /\ shape = "ladder"
              /\ NextRow(kinds, WorldRow(e)) # 0
              /\ nodes[2 * Rows + WorldRow(e)].cluster
                   = nodes[2 * Rows + NextRow(kinds, WorldRow(e))].cluster}

WorldEdges(shape, kinds, nodes, variation) ==
    [e \in WorldEdgeIds(shape, kinds, nodes) |->
        LET ends == WorldEnds(shape, kinds, e)
            turned == (variation = "flip1" /\ e = 1) \/ (variation = "flip2" /\ e = 2)
            name == IF e = 2 /\ variation = "name" THEN 2
                    ELSE IF e = 2 /\ variation = "noname" THEN None ELSE 1
            pedestrian == IF (e = 1 /\ variation = "ped1") \/ (e = 4 /\ variation = "ped4")
                          THEN 1 ELSE 0
        IN IF turned THEN MkEdge(nodes, ends[2], ends[1], name, pedestrian)
           ELSE MkEdge(nodes, ends[1], ends[2], name, pedestrian)]

\* identify_clusters, lines 44-45 and 65: a node with a single edge has no
\* cluster.
NoClusteredDeadEnd(nodes, edges) ==
    \A n \in DOMAIN nodes :
        nodes[n].cluster # None => Cardinality({e \in DOMAIN edges : edges[e].u = n \/ edges[e].v = n}) >= 2

\* identify_clusters, lines 60-68: the clusters that have nodes, each with
\* its centroid and the number of its nodes.
WorldClusters(shape, nodes, gap, left) ==
    [c \in {nodes[n].cluster : n \in DOMAIN nodes} \ {None} |->
        LET at == IF shape = "ladder"
                  THEN CASE c = left -> <<-1, gap>>
                         [] c = ClusterIds[3] -> <<41, 3 * gap>>
                         [] OTHER -> <<41, gap \div 2>>
                  ELSE IF c = ClusterIds[3] THEN <<0 - 2 * gap, 0 - 2 * gap>>
                       ELSE <<2 * gap, 2 * gap>>
        IN [x |-> at[1], y |-> at[2],
            degree |-> Cardinality({n \in DOMAIN nodes : nodes[n].cluster = c}),
            keep |-> FALSE]]

\* A "chain" has a cluster between the two columns: two parallel edges
\* lead from it to the right column, and one of them goes on to the left
\* column, beside a row through a middle node without a cluster.
ChainPoints ==
    <<(<<0, 0>>), (<<0, 10>>), (<<20, 0>>), (<<10, 10>>), (<<10, 20>>),
      (<<40, 0>>), (<<40, 10>>), (<<40, 20>>)>>

ChainEnds ==
    <<(<<1, 3>>), (<<3, 6>>), (<<2, 4>>), (<<4, 7>>), (<<5, 8>>),
      (<<1, 2>>), (<<4, 5>>), (<<6, 7>>), (<<7, 8>>)>>

ChainNodes(left) ==
    [n \in 1..Len(ChainPoints) |->
        [x |-> ChainPoints[n][1], y |-> ChainPoints[n][2],
         cluster |-> CASE n \in {1, 2} -> left
                       [] n = 3 -> None
                       [] n \in {4, 5} -> ClusterIds[3]
                       [] OTHER -> IF left = ClusterIds[1] THEN ClusterIds[2]
                                   ELSE ClusterIds[1]]]

ChainEdges(nodes) ==
    [e \in 1..Len(ChainEnds) |-> MkEdge(nodes, ChainEnds[e][1], ChainEnds[e][2], 1, 0)]

ChainClusters(nodes, left) ==
    [c \in {nodes[n].cluster : n \in DOMAIN nodes} \ {None} |->
        LET at == CASE c = left -> <<0, 5>>
                    [] c = ClusterIds[3] -> <<10, 15>>
                    [] OTHER -> <<40, 10>>
        IN [x |-> at[1], y |-> at[2],
            degree |-> Cardinality({n \in DOMAIN nodes : nodes[n].cluster = c}),
            keep |-> FALSE]]

\* A "knot" has two edges leave a node along the same line, a long one and
\* a short one that is continued up to the end of the long one, where a
\* single edge leads on to a cluster.
KnotPoints ==
    <<(<<0, 0>>), (<<10, 0>>), (<<20, 0>>), (<<40, 0>>), (<<40, 10>>), (<<60, 10>>)>>

KnotEnds == <<(<<3, 4>>), (<<1, 2>>), (<<2, 3>>), (<<1, 3>>), (<<4, 5>>), (<<5, 6>>)>>

KnotNodes(left) ==
    [n \in 1..Len(KnotPoints) |->
        [x |-> KnotPoints[n][1], y |-> KnotPoints[n][2],
         cluster |-> IF n \in {4, 5} THEN left ELSE None]]

KnotEdges(nodes) ==
    [e \in 1..Len(KnotEnds) |-> MkEdge(nodes, KnotEnds[e][1], KnotEnds[e][2], 1, 0)]

KnotClusters(left) ==
    [c \in {left} |-> [x |-> 40, y |-> 5, degree |-> 2, keep |-> FALSE]]

---------------------------------------------------------------------------
(* Spec: one dissolve pass over a world, a turn of its road loop a step.     *)

\* What attempts remembers of a turn.
Remembered(a) ==
    [outcome |-> a.outcome, why |-> a.why, anchor |-> a.anchor, goal |-> a.goal,
     road |-> a.road, ix_lines |-> a.ix_lines, line_geometries |-> a.line_geometries,
     n_possible |-> a.n_possible,
     lines_traversed |-> a.lines_traversed, nodes_traversed |-> a.nodes_traversed,
     guard |-> a.guard, interpolation |-> a.interpolation, cl |-> a.cl,
     between |-> a.between, rows |-> a.rows]

\* Lines 463-464 and 693: the anchors of a pass, in the order it takes them.
Anchors(pass, nodes, clusters) ==
    IF pass = "clusters" THEN list_cluster(clusters) ELSE SetToSeq(DOMAIN nodes)

\* Lines 467-471 and 694: the roads of an anchor.
Roads(pass, original, anchor) ==
    IF pass = "clusters" THEN edges_tmp(original, anchor) ELSE EdgesAt(original, anchor)

Init ==
    \E shape \in Shapes, kinds \in Kinds, split \in Splits,
       variation \in Variations, left \in {ClusterIds[1], ClusterIds[2]},
       pass \in {"clusters", "nodes"} :
        LET gap == Gap(variation)
            nodes == CASE shape = "chain" -> ChainNodes(left)
                       [] shape = "knot" -> KnotNodes(left)
                       [] OTHER -> WorldNodes(shape, kinds, gap, split, variation, left)
            edges == CASE shape = "chain" -> ChainEdges(nodes)
                       [] shape = "knot" -> KnotEdges(nodes)
                       [] OTHER -> WorldEdges(shape, kinds, nodes, variation)
            clusters == CASE shape = "chain" -> ChainClusters(nodes, left)
                          [] shape = "knot" -> KnotClusters(left)
                          [] OTHER -> WorldClusters(shape, nodes, gap, left)
        IN /\ NoClusteredDeadEnd(nodes, edges)
           /\ nodes_gdf = nodes
           /\ clusters_gdf = StartClusters(clusters)
           /\ edges_gdf = StartEdges(assign_cluster_edges(nodes, edges, clusters))
           /\ original_edges_gdf = edges_gdf
           /\ processed = {}
           /\ to_drop = {}
           /\ scan = [pass |-> pass, anchors |-> Anchors(pass, nodes, clusters),
                      ai |-> 0, tmp |-> <<>>, ri |-> 1]
           /\ attempt = NoAttempt
           /\ attempts = <<>>
           /\ pc = "scan"
           /\ walk = NoWalk

\* The tables and loop variables of the turn that is due.
TurnOf(road) ==
    [pass |-> scan.pass, nodes |-> nodes_gdf, edges |-> edges_gdf,
     original |-> original_edges_gdf, clusters |-> clusters_gdf,
     processed |-> processed, to_drop |-> to_drop,
     anchor |-> scan.anchors[scan.ai], tmp |-> scan.tmp, road |-> road]

\* The turn of the road loop that is due.
Turn ==
    IF scan.pass = "clusters"
    THEN simplify_dual_lines_road(TurnOf(scan.tmp[scan.ri]))
    ELSE simplify_dual_lines_nodes_to_cluster_road(TurnOf(scan.tmp[scan.ri]))

InRoadLoop == pc = "scan" /\ scan.ri <= Len(scan.tmp)

\* The outer loop takes its next cluster or node.
NextAnchor ==
    /\ pc = "scan"
    /\ scan.ri > Len(scan.tmp)
    /\ scan.ai < Len(scan.anchors)
    /\ scan' = [scan EXCEPT !.ai = @ + 1,
                            !.tmp = Roads(scan.pass, original_edges_gdf, scan.anchors[scan.ai + 1]),
                            !.ri = 1]
    /\ UNCHANGED <<nodes_gdf, edges_gdf, clusters_gdf, original_edges_gdf, processed, to_drop,
                   attempt, attempts, pc, walk>>

\* The body of the road loop, up to where it continues, commits or raises.
TakeRoad ==
    /\ InRoadLoop
    /\ attempt = NoAttempt
    /\ attempt' = Turn
    /\ UNCHANGED <<nodes_gdf, edges_gdf, clusters_gdf, original_edges_gdf, processed, to_drop,
                   scan, attempts, pc, walk>>

\* The road loop moves on with what the turn left.
MoveOn ==
    /\ scan' = [scan EXCEPT !.ri = @ + 1]
    /\ attempts' = Append(attempts, Remembered(attempt))
    /\ attempt' = NoAttempt
    /\ edges_gdf' = attempt.edges
    /\ clusters_gdf' = attempt.clusters
    /\ processed' = attempt.processed
    /\ to_drop' = attempt.to_drop
    /\ UNCHANGED <<nodes_gdf, original_edges_gdf, pc, walk>>

\* Lines 474-475 and 698-699: the road is processed already.
SkipRoad == attempt.outcome = "skipped" /\ MoveOn

\* A continue of the road loop: no bundle, or a bundle that is not merged.
AbandonBundle == attempt.outcome = "abandoned" /\ MoveOn

\* Lines 648-664 and 791-796: the bundle is merged and committed.
CommitBundle == attempt.outcome = "committed" /\ MoveOn

\* An exception leaves the pass.
RaiseInBundle ==
    /\ attempt.outcome = "raised"
    /\ pc' = "raised"
    /\ attempts' = Append(attempts, Remembered(attempt))
    /\ attempt' = NoAttempt
    /\ UNCHANGED <<nodes_gdf, edges_gdf, clusters_gdf, original_edges_gdf, processed, to_drop,
                   scan, walk>>

\* Lines 666-670 and 798-803: the scan is over; the edges to drop go and
\* reassign_edges rewrites the tables.
FinishPass ==
    /\ pc = "scan"
    /\ scan.ri > Len(scan.tmp)
    /\ scan.ai >= Len(scan.anchors)
    /\ LET left == [e \in DOMAIN edges_gdf \ to_drop |-> edges_gdf[e]]
           out == reassign_edges(nodes_gdf, left, clusters_gdf)
       IN /\ pc' = IF out.raised THEN "raised" ELSE "done"
          /\ edges_gdf' = out.edges
          /\ nodes_gdf' = out.nodes
    /\ UNCHANGED <<clusters_gdf, original_edges_gdf, processed, to_drop, scan, attempt,
                   attempts, walk>>

Next ==
    \/ NextAnchor
    \/ TakeRoad
    \/ SkipRoad
    \/ AbandonBundle
    \/ CommitBundle
    \/ RaiseInBundle
    \/ FinishPass

Spec == Init /\ [][Next]_vars

---------------------------------------------------------------------------
(* SpecWalk: one call of indirect_cluster, an iteration of its loop a step *)

WalkEdges == 3

\* Four nodes in a row and two beside it.
WalkPoints == <<(<<0, 0>>), (<<2, 0>>), (<<4, 0>>), (<<6, 0>>), (<<2, 2>>), (<<4, 2>>)>>

WalkClusterIds == {7, 8}

\* The axis-parallel node pairs: edges along the row (some overlapping),
\* edges across, and one along the second row.
WalkPairs ==
    {<<a, b>> \in (1..6) \X (1..6) :
        /\ a < b
        /\ \/ WalkPoints[a][1] = WalkPoints[b][1]
           \/ WalkPoints[a][2] = WalkPoints[b][2]}

WalkNodes(c3, c4) ==
    [n \in 1..6 |->
        [x |-> WalkPoints[n][1], y |-> WalkPoints[n][2],
         cluster |-> CASE n = 3 -> c3 [] n = 4 -> c4 [] n \in {5, 6} -> 7 [] OTHER -> None]]

WalkClusters(p7) ==
    [c \in WalkClusterIds |->
        IF c = 7 THEN [x |-> p7[1], y |-> p7[2], degree |-> 2, keep |-> FALSE]
        ELSE [x |-> 5, y |-> 0, degree |-> 2, keep |-> FALSE]]

InitWalk ==
    \E pairs \in [1..WalkEdges -> WalkPairs], c3, c4 \in {None} \cup WalkClusterIds,
       p7 \in {<<3, 2>>, <<5, 1>>}, search_dir \in {"u", "v"},
       desired_cluster \in {None} \cup WalkClusterIds :
        /\ nodes_gdf = WalkNodes(c3, c4)
        /\ edges_gdf = [e \in 1..WalkEdges |->
                           MkEdge(nodes_gdf, pairs[e][1], pairs[e][2], None, 0)]
        /\ clusters_gdf = WalkClusters(p7)
        /\ walk = indirect_cluster_start(nodes_gdf, edges_gdf, clusters_gdf, 1, search_dir,
                                         desired_cluster # None, desired_cluster)
        /\ original_edges_gdf = edges_gdf
        /\ processed = {}
        /\ to_drop = {}
        /\ scan = NoScan
        /\ attempt = NoAttempt
        /\ attempts = <<>>
        /\ pc = "walk"

\* One iteration of the while loop.
WalkIter ==
    /\ walk.pc = "while"
    /\ walk' = indirect_cluster_iter(nodes_gdf, edges_gdf, clusters_gdf, walk)
    /\ UNCHANGED <<nodes_gdf, edges_gdf, clusters_gdf, original_edges_gdf, processed, to_drop,
                   scan, attempt, attempts, pc>>

\* The return: the six null results, or the results of lines 229-235.
WalkReturn ==
    /\ walk.pc \in {"null", "found"}
    /\ walk' = [walk EXCEPT !.pc = "returned",
                            !.result = indirect_cluster_result(nodes_gdf, walk)]
    /\ UNCHANGED <<nodes_gdf, edges_gdf, clusters_gdf, original_edges_gdf, processed, to_drop,
                   scan, attempt, attempts, pc>>

NextWalk == WalkIter \/ WalkReturn

SpecWalk == InitWalk /\ [][NextWalk]_vars

SpecWalkFair == SpecWalk /\ WF_vars(NextWalk)

---------------------------------------------------------------------------
(* SpecReassign: reassign_edges on a table of one edge between two of a few  *)
(* nodes.  Each node is in no cluster or in one of two, each cluster is kept *)
(* or not; the edge starts at the position of its u node, or at the centroid *)
(* of the kept cluster of its u node as a committed centerline does, and     *)
(* ends likewise; it may have a vertex in between.                           *)

ReassignNodes == 3

ReassignPoint(n) == <<10 * n, 10 * (n % 2)>>

ReassignCentroid(c) == IF c = ClusterIds[1] THEN <<5, 7>> ELSE <<25, 3>>

\* Where an edge may start or end at node n: at the node or, if the node's
\* cluster is kept, at the centroid of that cluster.
ReassignEnds(nodes, clusters, n) ==
    {NodePoint(nodes, n)} \cup
    (IF nodes[n].cluster # None /\ clusters[nodes[n].cluster].keep
     THEN {ClusterPoint(clusters, nodes[n].cluster)} ELSE {})

InitReassign ==
    \E member \in [1..ReassignNodes -> {None, ClusterIds[1], ClusterIds[2]}],
       keep \in [{ClusterIds[1], ClusterIds[2]} -> BOOLEAN],
       u \in 1..ReassignNodes, v \in 1..ReassignNodes, bend \in BOOLEAN :
        LET nodes == [n \in 1..ReassignNodes |->
                         [x |-> ReassignPoint(n)[1], y |-> ReassignPoint(n)[2],
                          cluster |-> member[n]]]
            clusters == [c \in Range(member) \ {None} |->
                            [x |-> ReassignCentroid(c)[1], y |-> ReassignCentroid(c)[2],
                             degree |-> Cardinality({n \in 1..ReassignNodes : member[n] = c}),
                             keep |-> keep[c]]]
        IN /\ u # v
           /\ nodes_gdf = nodes
           /\ clusters_gdf = clusters
           /\ \E from \in ReassignEnds(nodes, clusters, u),
                 to \in ReassignEnds(nodes, clusters, v) :
                 edges_gdf = [e \in {1} |->
                     [MkEdge(nodes, u, v, None, 0) EXCEPT
                         !.geometry = IF bend THEN <<from, <<15, 20>>, to>>
                                      ELSE <<from, to>>]]
           /\ original_edges_gdf = edges_gdf
           /\ processed = {}
           /\ to_drop = {}
           /\ scan = [NoScan EXCEPT !.pass = "reassign"]
           /\ attempt = NoAttempt
           /\ attempts = <<>>
           /\ pc = "rows"
           /\ walk = NoWalk

\* reassign_edges, lines 805-892.
ReassignEdges ==
    /\ pc = "rows"
    /\ LET out == reassign_edges(nodes_gdf, edges_gdf, clusters_gdf)
       IN /\ pc' = IF out.raised THEN "raised" ELSE "done"
          /\ edges_gdf' = out.edges
          /\ nodes_gdf' = out.nodes
    /\ UNCHANGED <<clusters_gdf, original_edges_gdf, processed, to_drop, scan, attempt,
                   attempts, walk>>

SpecReassign == InitReassign /\ [][ReassignEdges]_vars

---------------------------------------------------------------------------
(* Claims about indirect_cluster *)

HasNoDuplicates(s) == \A i, j \in 1..Len(s) : i # j => s[i] # s[j]

\* C5: the traversed-node list a successful walk returns contains no node
\* twice, and the terminal node it returns is not in that list.
C5_NoNodeTwice ==
    (walk.pc = "returned" /\ ~walk.result.null) =>
        /\ HasNoDuplicates(walk.result.nodes_traversed)
        /\ walk.result.last_node \notin Range(walk.result.nodes_traversed)

\* A successful walk through at least two nodes has returned.
C5_Witness ==
    /\ walk.pc = "returned"
    /\ ~walk.result.null
    /\ Len(walk.result.nodes_traversed) >= 2

\* C6: every walk terminates, with a found cluster or with the null result.
C6_Terminates == <>(walk.pc = "returned")

\* A walk has returned after advancing at least twice.
C6_Witness ==
    /\ walk.pc = "returned"
    /\ Len(walk.lines_traversed) >= 2

\* A step of the walk that advances along a connector (to go on, or to stop
\* at a found cluster).
AcceptedStep ==
    /\ walk.pc = "while"
    /\ Len(walk'.lines_traversed) = Len(walk.lines_traversed) + 1

DistToOther(n) == Dist2(NodePoint(nodes_gdf, n), NodePoint(nodes_gdf, walk.other_node))

\* C7 as amended: an accepted step never brings the walk closer to other_node:
\* distance(new node, other_node) >= distance(current node, other_node).
C7_NeverCloser ==
    [][AcceptedStep => DistToOther(walk'.coming_from) >= DistToOther(walk.coming_from)]_vars

\* C7 as stated: an accepted step never increases the distance to other_node.
C7_AsStated ==
    [][AcceptedStep => DistToOther(walk'.coming_from) <= DistToOther(walk.coming_from)]_vars

\* The walk has advanced to a node strictly farther from other_node than the
\* endpoint it started from.
C7_Witness ==
    /\ Len(walk.lines_traversed) >= 1
    /\ walk.pc \in {"while", "found"}
    /\ DistToOther(walk.coming_from) > DistToOther(walk.nodes_traversed[1])

DistToTarget(n) ==
    Dist2(ClusterPoint(clusters_gdf, walk.desired_cluster), NodePoint(nodes_gdf, n))

\* C8 as amended: in targeted mode, an iteration that starts at a node
\* strictly farther from the target cluster than the endpoint the walk started
\* from ends the walk with the null result.
C8_FartherThanStartFails ==
    [][(/\ walk.pc = "while"
        /\ walk.specific_cluster
        /\ DistToTarget(walk.coming_from) > walk.distance_start) => walk'.pc = "null"]_vars

\* C8 as stated: in targeted mode the walk does not advance from a node that
\* is not strictly closer to the target cluster than the node before it.
C8_AsStated ==
    [][(/\ AcceptedStep
        /\ walk.specific_cluster
        /\ Len(walk.nodes_traversed) >= 1)
         => DistToTarget(walk.coming_from)
              < DistToTarget(walk.nodes_traversed[Len(walk.nodes_traversed)])]_vars

\* A targeted walk that had advanced, and still had rows to try, has ended
\* null at a node farther from the target than its start.
C8_Witness ==
    /\ walk.pc = "null"
    /\ walk.specific_cluster
    /\ Len(walk.lines_traversed) >= 1
    /\ Len(walk.possible_matches) > 0
    /\ DistToTarget(walk.coming_from) > walk.distance_start

---------------------------------------------------------------------------
(* Claims about the dissolve passes *)

\* The turn the road loop made last.
Last == attempts[Len(attempts)]

\* The pass stands right behind a commit, or has gone on reading only.
JustCommitted ==
    /\ pc = "scan"
    /\ attempts # <<>>
    /\ Last.outcome = "committed"

\* The edges a committed turn a removes: its bundle members, the edges its
\* walks traversed and the edges between the traversed nodes, without the
\* first bundle member.
Removed(a) ==
    (Range(a.ix_lines) \cup Range(a.lines_traversed) \cup a.between) \ {a.ix_lines[1]}

\* C1: right after a commit, in either pass, the bundle has two members or
\* more, every bundle member but the first, every traversed edge and every
\* between edge is in to_drop, and the first bundle member is not.
C1_OneSurvivor ==
    JustCommitted =>
        /\ Len(Last.ix_lines) >= 2
        /\ Removed(Last) \subseteq to_drop
        /\ Last.ix_lines[1] \notin to_drop

C1_Witness ==
    /\ JustCommitted
    /\ Len(Last.ix_lines) >= 3
    /\ Last.lines_traversed # <<>>
    /\ Removed(Last) \subseteq to_drop
    /\ Last.ix_lines[1] \notin to_drop

\* C2: a commit leaves the survivor with pedestrian = 1 exactly if the
\* survivor had it or an edge this commit removes has it in the original
\* table; what earlier bundles of the pass processed plays no part.
C2_OwnBundleOnly ==
    [][CommitBundle =>
          (edges_gdf'[attempt.ix_lines[1]].pedestrian = 1
             <=> \/ edges_gdf[attempt.ix_lines[1]].pedestrian = 1
                 \/ original_edges_gdf[attempt.ix_lines[1]].pedestrian = 1
                 \/ \E e \in Removed(attempt) : original_edges_gdf[e].pedestrian = 1)]_vars

\* A survivor made pedestrian by a bundle none of whose edges is.
C2_Witness ==
    /\ JustCommitted
    /\ edges_gdf[Last.ix_lines[1]].pedestrian = 1
    /\ \A e \in Removed(Last) \cup {Last.ix_lines[1]} : original_edges_gdf[e].pedestrian = 0

\* C4: a turn whose dissolver met a guard (names, lengths, staggered ends,
\* centroids more than 100 apart) is abandoned, neither committed nor
\* raised, and no edge of the table is left without a geometry.
C4_GuardSkips ==
    /\ \A i \in 1..Len(attempts) :
          attempts[i].guard # "none" => attempts[i].outcome = "abandoned"
    /\ pc = "scan" => \A e \in DOMAIN edges_gdf : edges_gdf[e].geometry # <<>>

\* A bundle of more than two edges committed although the centroids of the
\* two lines left were more than 100 apart; its survivor has no geometry.
C4_Witness ==
    /\ JustCommitted
    /\ Last.guard = "centroid"
    /\ Len(Last.ix_lines) > 2
    /\ edges_gdf[Last.ix_lines[1]].geometry = <<>>
    /\ Last.ix_lines[1] \in processed

\* A turn that committed with cluster c as its goal or, in the pass over the
\* clusters, as its anchor.
TookPart(c, a) ==
    /\ a.outcome = "committed"
    /\ c = a.goal \/ (scan.pass = "clusters" /\ c = a.anchor)

\* C9: throughout a pass, and so at its end, a cluster has keep = TRUE
\* exactly if a committed turn of the pass had it as goal or, in the pass
\* over the clusters, as anchor; and in a pass that has come to its end
\* every committed turn was one whose dissolver met no guard.
C9_KeepIffDissolved ==
    /\ \A c \in DOMAIN clusters_gdf :
          clusters_gdf[c].keep <=> \E i \in 1..Len(attempts) : TookPart(c, attempts[i])
    /\ pc = "done" =>
          \A i \in 1..Len(attempts) :
              attempts[i].outcome = "committed" => attempts[i].guard = "none"

C9_Witness ==
    /\ pc = "done"
    /\ \E c \in DOMAIN clusters_gdf : clusters_gdf[c].keep
    /\ \E c \in DOMAIN clusters_gdf : ~clusters_gdf[c].keep
    /\ \E i \in 1..Len(attempts) : attempts[i].outcome = "abandoned" /\ attempts[i].n_possible >= 2

\* Both edges have a name and the names differ.
NamesClash(e, f) ==
    /\ original_edges_gdf[e].name # None
    /\ original_edges_gdf[f].name # None
    /\ original_edges_gdf[e].name # original_edges_gdf[f].name

\* C10 as stated: no committed turn, in either pass and of whatever bundle
\* size, has two bundle members whose names clash.
C10_AsStated ==
    \A i \in 1..Len(attempts) :
        attempts[i].outcome = "committed" =>
            \A j, k \in 1..Len(attempts[i].ix_lines) :
                ~NamesClash(attempts[i].ix_lines[j], attempts[i].ix_lines[k])

\* C10: in the pass over the clusters, no committed turn whose bundle had
\* exactly two candidate rows has two bundle members whose names clash.
C10_NameGuard ==
    \A i \in 1..Len(attempts) :
        (/\ attempts[i].outcome = "committed"
         /\ scan.pass = "clusters"
         /\ attempts[i].n_possible = 2) =>
            ~NamesClash(attempts[i].ix_lines[1], attempts[i].ix_lines[2])

C10_Witness ==
    /\ scan.pass = "clusters"
    /\ attempts # <<>>
    /\ Last.outcome = "abandoned"
    /\ Last.guard = "name"
    /\ Last.n_possible = 2
    /\ NamesClash(Last.ix_lines[1], Last.ix_lines[2])

---------------------------------------------------------------------------
(* Claims about reassign_edges *)

\* The line of edge e starts at the position of its u node and ends at the
\* position of its v node.
EndsAtNodes(nodes, edges, e) ==
    /\ edges[e].geometry[1] = NodePoint(nodes, edges[e].u)
    /\ edges[e].geometry[Len(edges[e].geometry)] = NodePoint(nodes, edges[e].v)

\* C3: every edge reassign_edges puts out starts at the position of its u
\* node and ends at the position of its v node in the node table put out,
\* where a kept cluster is a node at its centroid; whichever of the ends
\* are clustered and whichever clusters are kept.
C3_CoordinateConsistency ==
    pc = "done" => \A e \in DOMAIN edges_gdf : EndsAtNodes(nodes_gdf, edges_gdf, e)

\* An edge put out from a kept cluster to a node of a cluster that is not
\* kept, with a vertex in between.
C3_Witness ==
    /\ pc = "done"
    /\ scan.pass = "reassign"
    /\ \E e \in DOMAIN edges_gdf :
          /\ edges_gdf[e].u \in DOMAIN clusters_gdf
          /\ edges_gdf[e].v \notin DOMAIN clusters_gdf
          /\ nodes_gdf[edges_gdf[e].v].cluster # None
          /\ edges_gdf[e].geometry[1] # original_edges_gdf[e].geometry[1]
          /\ Len(edges_gdf[e].geometry) = 3
          /\ EndsAtNodes(nodes_gdf, edges_gdf, e)

---------------------------------------------------------------------------
(* Further claims about the dissolve passes *)

\* Two bundle members of turn a of which one is the continuation of the
\* other at the anchor node of the turn.
ContinuationPair(a) ==
    \E j, k \in 1..Len(a.ix_lines) :
        /\ j # k
        /\ a.anchor \in {original_edges_gdf[a.ix_lines[j]].u, original_edges_gdf[a.ix_lines[j]].v}
        /\ a.anchor \in {original_edges_gdf[a.ix_lines[k]].u, original_edges_gdf[a.ix_lines[k]].v}
        /\ is_continuation(a.ix_lines[j], a.ix_lines[k], original_edges_gdf)

\* C11: in the pass over the nodes no committed turn has two bundle members
\* of which one is the continuation of the other at the anchor node.
C11_NoContinuationMerged ==
    scan.pass = "nodes" =>
        \A i \in 1..Len(attempts) :
            attempts[i].outcome = "committed" => ~ContinuationPair(attempts[i])

\* The pass over the nodes has committed a bundle that holds an edge and its
\* continuation through the anchor node, and has dropped one of the two.
C11_Witness ==
    /\ scan.pass = "nodes"
    /\ JustCommitted
    /\ Last.guard = "none"
    /\ ContinuationPair(Last)
    /\ \E e \in Range(Last.ix_lines) : e \in to_drop

\* Turn a handed its bundle to a dissolver.
Dissolving(a) == a.guard # "none" \/ a.outcome \in {"committed", "raised"}

\* Turns a and b are about the same bundle: the same edges between the same
\* two ends, whichever of the two is the anchor.
SameBundle(a, b) ==
    /\ Range(a.ix_lines) = Range(b.ix_lines)
    /\ {a.anchor, a.goal} = {b.anchor, b.goal}

\* C12: a bundle abandoned on a guard failure is not handed to a dissolver
\* again later in the pass, neither from another edge of the same anchor nor
\* from the anchor at its other end.
C12_NoRetry ==
    \A i, j \in 1..Len(attempts) :
        (/\ i < j
         /\ attempts[i].outcome = "abandoned"
         /\ attempts[i].guard # "none") =>
            ~(Dissolving(attempts[j]) /\ SameBundle(attempts[i], attempts[j]))

\* The bundle abandoned on a guard failure in an earlier turn has been
\* handed to the dissolver again, from another edge of the same anchor.
C12_Witness ==
    /\ Len(attempts) >= 2
    /\ Last.outcome = "abandoned"
    /\ Last.guard # "none"
    /\ \E i \in 1..(Len(attempts) - 1) :
          /\ attempts[i].outcome = "abandoned"
          /\ attempts[i].guard = Last.guard
          /\ attempts[i].anchor = Last.anchor
          /\ attempts[i].road # Last.road
          /\ attempts[i].ix_lines = Last.ix_lines

\* C13: while a pass scans, no step takes an id out of processed or out of
\* to_drop, no step before the end of the scan takes a row out of the edge
\* table, and the snapshot the candidates are read from is never written.
C13_AppendOnly ==
    [][/\ processed \subseteq processed'
       /\ to_drop \subseteq to_drop'
       /\ original_edges_gdf' = original_edges_gdf
       /\ (pc' = "scan" => DOMAIN edges_gdf' = DOMAIN edges_gdf)]_vars

\* An edge an earlier commit had put into to_drop has been taken out of it
\* again by a later commit, whose first bundle member it is.
C13_Witness ==
    /\ JustCommitted
    /\ \E i \in 1..(Len(attempts) - 1) :
          /\ attempts[i].outcome = "committed"
          /\ Last.ix_lines[1] \in Removed(attempts[i])
    /\ Last.ix_lines[1] \notin to_drop
    /\ Last.ix_lines[1] \in processed

\* The direct and the indirect cluster of neither end of row r are both set.
OneClusterPerEnd(r) ==
    /\ ~(r.clus_u # None /\ r.clus_uR # None)
    /\ ~(r.clus_v # None /\ r.clus_vR # None)

\* C14: in the edge table _assign_cluster_edges returns, and in the oriented
\* candidate rows of every turn, forced rows included, no end has both its
\* direct and its indirect cluster set.
C14_OneClusterPerEnd ==
    /\ \A e \in DOMAIN original_edges_gdf : OneClusterPerEnd(original_edges_gdf[e])
    /\ \A i \in 1..Len(attempts) :
          \A k \in 1..Len(attempts[i].rows) : OneClusterPerEnd(attempts[i].rows[k])

\* A turn has a turned candidate row, and a row that had a direct cluster at
\* its far end and was forced to the goal by a targeted walk.
C14_Witness ==
    /\ attempts # <<>>
    /\ \E k \in 1..Len(Last.rows) : Last.rows[k].dir = "u"
    /\ \E k \in 1..Len(Last.rows) :
          LET r == Last.rows[k]
              o == original_edges_gdf[r.edgeID]
          IN /\ r.forced_cluster
             /\ r.clus_vR = Last.goal
             /\ r.clus_v = None
             /\ (IF r.dir = "u" THEN o.clus_u ELSE o.clus_v) \notin {None, Last.goal}
    /\ \E e \in DOMAIN original_edges_gdf : original_edges_gdf[e].clus_uR # None

---------------------------------------------------------------------------
(* identify_clusters.  The nodes lie on one line, y = 0, and lengths are in  *)
(* hundredths of a unit, so that nodes can be closer than a unit; areas are  *)
(* in squares of that.                                                       *)

ClusterNodes == 4

\* Line 20: radius = 10 units.
Radius == 1000

\* The positions a node may have.
Places == {0, 1, 3, 900, 1900, 2100, 4500, 4503}

\* graph.nodes_degree: the number of edge ends at node n.
nodes_degree(edges, n) ==
    Cardinality({e \in DOMAIN edges : edges[e].u = n})
      + Cardinality({e \in DOMAIN edges : edges[e].v = n})

\* Lines 44-45: the nodes that are buffered, the dead ends left out.
tmp_nodes(nodes, edges) == {n \in DOMAIN nodes : nodes_degree(edges, n) # 1}

\* Line 46: the area of the polygon buffer(radius) returns, a regular polygon
\* of 64 corners inscribed in the circle: 32 * sin(pi / 32) = 3.136548 times
\* the square of the radius.
BufferArea ==
    ((Radius * Radius) \div 1000) * 3136 + (((Radius * Radius) \div 1000) * 548) \div 1000

\* Line 54: radius * radius * 3.14159
DiscArea ==
    ((Radius * Radius) \div 1000) * 3141 + (((Radius * Radius) \div 1000) * 59) \div 100

\* Line 46, unary_union: the buffers of the buffered nodes S that lie at or
\* right of lo and left of hi each overlap the buffer of a node further right.
Chained(nodes, S, lo, hi) ==
    \A a \in S :
        (lo <= nodes[a].x /\ nodes[a].x < hi) =>
            \E b \in S : nodes[a].x < nodes[b].x /\ nodes[b].x - nodes[a].x < 2 * Radius

\* Line 46, unary_union: the nodes whose buffers make up one polygon with the
\* buffer of node n.
Component(nodes, S, n) ==
    {m \in S : IF nodes[n].x <= nodes[m].x
               THEN Chained(nodes, S, nodes[n].x, nodes[m].x)
               ELSE Chained(nodes, S, nodes[m].x, nodes[n].x)}

\* Line 46: the polygons of the union, each as the set of its nodes.
buffered_nodes(nodes, S) == {Component(nodes, S, n) : n \in S}

\* What the buffer of a node adds to the area of the buffers left of it, the
\* nearest of them g away: 2 * radius * g for a small g, the whole buffer
\* at most.
Crescent(g) == IF 2 * Radius * g < BufferArea THEN 2 * Radius * g ELSE BufferArea

RECURSIVE AreaFrom(_, _, _)
AreaFrom(nodes, xs, i) ==
    IF i > Len(xs) THEN 0
    ELSE Crescent(nodes[xs[i]].x - nodes[xs[i - 1]].x) + AreaFrom(nodes, xs, i + 1)

\* Line 52: the area of a polygon of the union.
Area(nodes, polygon) ==
    LET xs == SortByKey(SetToSeq(polygon), [n \in polygon |-> nodes[n].x])
    IN BufferArea + AreaFrom(nodes, xs, 2)

\* The extent of a polygon of the union along the line.
Extent(nodes, polygon) ==
    LET lo == CHOOSE x \in {nodes[n].x : n \in polygon} : \A m \in polygon : x <= nodes[m].x
        hi == CHOOSE x \in {nodes[n].x : n \in polygon} : \A m \in polygon : x >= nodes[m].x
    IN <<lo - Radius, hi + Radius>>

MaxNodeId(nodes) == CHOOSE n \in DOMAIN nodes : \A m \in DOMAIN nodes : n >= m

ClusterId_unshifted(index, nodes) == index

\* Line 57: clusters_gdf.index += nodes_gdf.index.max() + 1
ClusterId(index, nodes) == index + MaxNodeId(nodes) + 1

\* Lines 82-89, _assign_cluster_nodes: the first polygon among those that
\* meet the buffer of 1 unit around the node that holds the node; None when
\* there is none.  polygons maps the cluster ids to the extents.
assign_cluster_nodes(x, polygons) ==
    LET tmp == SelectSeq(SetToSeq(DOMAIN polygons),
                         LAMBDA c : polygons[c][1] < x + 100 /\ x - 100 < polygons[c][2])
        within == SelectSeq(tmp, LAMBDA c : polygons[c][1] < x /\ x < polygons[c][2])
    IN IF within = <<>> THEN None ELSE Head(within)

\* Lines 41-77: identify_clusters; order is the order in which the union
\* hands out its polygons.
identify_clusters(nodes, edges, order) ==
    LET kept == {i \in 1..Len(order) : Area(nodes, order[i]) > DiscArea}
        ids == {ClusterId(i - 1, nodes) : i \in kept}
        polygon == [c \in ids |-> order[CHOOSE i \in kept : ClusterId(i - 1, nodes) = c]]
        extents == [c \in ids |-> Extent(nodes, polygon[c])]
        assigned == [n \in DOMAIN nodes |->
                        IF nodes_degree(edges, n) = 1 THEN None
                        ELSE assign_cluster_nodes(nodes[n].x, extents)]
        nodes_out == [n \in DOMAIN nodes |->
                         [x |-> nodes[n].x, y |-> nodes[n].y, cluster |-> assigned[n]]]
        clusters == [c \in ids |->
                        [x |-> (extents[c][1] + extents[c][2]) \div 2, y |-> 0,
                         degree |-> Cardinality({n \in DOMAIN nodes : assigned[n] = c})]]
    IN [nodes |-> nodes_out,
        clusters |-> clusters,
        edges |-> assign_cluster_edges(nodes_out, edges, clusters)]

\* The orders in which the polygons of a set can be handed out.
Orders(polygons) ==
    {s \in [1..Cardinality(polygons) -> polygons] :
        \A i, j \in 1..Cardinality(polygons) : i # j => s[i] # s[j]}

\* The pairs of nodes an edge may join: neighbours and next neighbours.
ClusterPairs == {p \in (1..ClusterNodes) \X (1..ClusterNodes) : p[1] < p[2] /\ p[2] - p[1] <= 2}

InitClusters ==
    \E x \in [1..ClusterNodes -> Places], joined \in SUBSET ClusterPairs :
        LET nodes == [n \in 1..ClusterNodes |-> [x |-> x[n], y |-> 0]]
            pairs == SetToSeq({10 * p[1] + p[2] : p \in joined})
        IN /\ \A n \in 1..(ClusterNodes - 1) : x[n] < x[n + 1]
           /\ nodes_gdf = nodes
           /\ edges_gdf = [e \in 1..Len(pairs) |->
                              MkEdge(nodes, pairs[e] \div 10, pairs[e] % 10, None, 0)]
           /\ original_edges_gdf = edges_gdf
           /\ clusters_gdf = <<>>
           /\ processed = {}
           /\ to_drop = {}
           /\ scan = [NoScan EXCEPT !.pass = "identify"]
           /\ attempt = NoAttempt
           /\ attempts = <<>>
           /\ pc = "identify"
           /\ walk = NoWalk

\* identify_clusters, lines 20-77.
IdentifyClusters ==
    /\ pc = "identify"
    /\ \E order \in Orders(buffered_nodes(nodes_gdf, tmp_nodes(nodes_gdf, edges_gdf))) :
          LET out == identify_clusters(nodes_gdf, edges_gdf, order)
          IN /\ nodes_gdf' = out.nodes
             /\ clusters_gdf' = out.clusters
             /\ edges_gdf' = out.edges
    /\ pc' = "done"
    /\ UNCHANGED <<original_edges_gdf, processed, to_drop, scan, attempt, attempts, walk>>

SpecClusters == InitClusters /\ [][IdentifyClusters]_vars

---------------------------------------------------------------------------
(* Claims about identify_clusters *)

\* The polygons of the union that become clusters, from the tables handed in.
ClusterPolygons ==
    {p \in buffered_nodes(nodes_gdf, tmp_nodes(nodes_gdf, original_edges_gdf)) :
        Area(nodes_gdf, p) > DiscArea}

\* C15: every cluster id identify_clusters hands out is above every node id,
\* and the polygons that become clusters get ids of their own: there are as
\* many cluster ids as such polygons.
C15_ClusterIdsAbove ==
    pc = "done" =>
        /\ \A c \in DOMAIN clusters_gdf : \A n \in DOMAIN nodes_gdf : c > n
        /\ Cardinality(DOMAIN clusters_gdf) = Cardinality(ClusterPolygons)

\* Two clusters have come out, each holding two nodes.
C15_Witness ==
    /\ pc = "done"
    /\ Cardinality(DOMAIN clusters_gdf) = 2
    /\ \A c \in DOMAIN clusters_gdf : clusters_gdf[c].degree = 2

\* Nodes n and m lie within radius of each other.
WithinRadius(n, m) == Abs(nodes_gdf[n].x - nodes_gdf[m].x) <= Radius

\* C16: after identify_clusters any two nodes of degree 2 or more that lie
\* within radius of each other have the same cluster, and it is not None;
\* a node of degree 1 has none.
C16_CloseNodesClustered ==
    pc = "done" =>
        /\ \A n, m \in DOMAIN nodes_gdf :
              (/\ n # m
               /\ nodes_degree(original_edges_gdf, n) >= 2
               /\ nodes_degree(original_edges_gdf, m) >= 2
               /\ WithinRadius(n, m)) =>
                  /\ nodes_gdf[n].cluster # None
                  /\ nodes_gdf[n].cluster = nodes_gdf[m].cluster
        /\ \A n \in DOMAIN nodes_gdf :
              nodes_degree(original_edges_gdf, n) = 1 => nodes_gdf[n].cluster = None

\* Two nodes of degree 2 or more lie a fiftieth of a unit apart, far from
\* every other buffered node, and have come out without a cluster.
C16_Witness ==
    /\ pc = "done"
    /\ \E n, m \in DOMAIN nodes_gdf :
          /\ nodes_degree(original_edges_gdf, n) >= 2
          /\ nodes_degree(original_edges_gdf, m) >= 2
          /\ nodes_gdf[m].x - nodes_gdf[n].x = 2
          /\ nodes_gdf[n].cluster = None
          /\ nodes_gdf[m].cluster = None

---------------------------------------------------------------------------
(* Further claims about reassign_edges *)

\* Node n of the node table handed in belongs to a cluster that is kept.
InKeptCluster(n) ==
    /\ nodes_gdf[n].cluster # None
    /\ clusters_gdf[nodes_gdf[n].cluster].keep

\* C17: in the tables reassign_edges returns, an end of an edge is a cluster
\* id exactly if the node it was at is in a kept cluster, and is then the id
\* of that cluster; any other end keeps its node id and its coordinate; and
\* the rows of the nodes that are in no kept cluster are as they were.
C17_OnlyKeptRewritten ==
    [][(pc = "rows" /\ pc' = "done") =>
          /\ \A e \in DOMAIN edges_gdf' :
                LET old == edges_gdf[e]
                    new == edges_gdf'[e]
                IN /\ new.u \in DOMAIN clusters_gdf <=> InKeptCluster(old.u)
                   /\ new.v \in DOMAIN clusters_gdf <=> InKeptCluster(old.v)
                   /\ InKeptCluster(old.u) => new.u = nodes_gdf[old.u].cluster
                   /\ InKeptCluster(old.v) => new.v = nodes_gdf[old.v].cluster
                   /\ ~InKeptCluster(old.u) =>
                          new.u = old.u /\ new.geometry[1] = old.geometry[1]
                   /\ ~InKeptCluster(old.v) =>
                          /\ new.v = old.v
                          /\ new.geometry[Len(new.geometry)] = old.geometry[Len(old.geometry)]
          /\ \A n \in DOMAIN nodes_gdf :
                ~InKeptCluster(n) => nodes_gdf'[n] = nodes_gdf[n]]_vars

\* An edge has come out with one end moved to a kept cluster and the other
\* left at its node, which is in a cluster that is not kept.
C17_Witness ==
    /\ pc = "done"
    /\ scan.pass = "reassign"
    /\ \E e \in DOMAIN edges_gdf :
          /\ edges_gdf[e].u \in DOMAIN clusters_gdf
          /\ edges_gdf[e].v = original_edges_gdf[e].v
          /\ nodes_gdf[edges_gdf[e].v].cluster # None
          /\ ~clusters_gdf[nodes_gdf[edges_gdf[e].v].cluster].keep
          /\ edges_gdf[e].geometry[Len(edges_gdf[e].geometry)]
               = original_edges_gdf[e].geometry[Len(original_edges_gdf[e].geometry)]

---------------------------------------------------------------------------
(* Claims about the order of the pass over the clusters *)

\* Turn a was made for an anchor that comes before the anchor of turn b, or
\* for the same anchor and a road that is not the shorter one.
InOrder(a, b) ==
    /\ clusters_gdf[a.anchor].degree >= clusters_gdf[b.anchor].degree
    /\ a.anchor = b.anchor =>
          original_edges_gdf[a.road].length >= original_edges_gdf[b.road].length

\* C18: in the pass over the clusters, the anchors are taken by descending
\* degree and the roads of an anchor by descending length: of two turns the
\* earlier one has the anchor of higher or equal degree and, for the same
\* anchor, the road of greater or equal length; the same holds of the
\* anchors and roads still to come.
C18_DescendingOrder ==
    scan.pass = "clusters" =>
        /\ \A i, j \in 1..Len(attempts) : i < j => InOrder(attempts[i], attempts[j])
        /\ \A i, j \in 1..Len(scan.anchors) :
              i < j => clusters_gdf[scan.anchors[i]].degree >= clusters_gdf[scan.anchors[j]].degree
        /\ \A i, j \in 1..Len(scan.tmp) :
              i < j => original_edges_gdf[scan.tmp[i]].length
                         >= original_edges_gdf[scan.tmp[j]].length

\* The pass over the clusters has made a turn for a longer and then for a
\* shorter road of one anchor, and then a turn for an anchor of lower degree.
C18_Witness ==
    /\ scan.pass = "clusters"
    /\ \E i, j, k \in 1..Len(attempts) :
          /\ i < j /\ j < k
          /\ attempts[i].anchor = attempts[j].anchor
          /\ original_edges_gdf[attempts[i].road].length
               > original_edges_gdf[attempts[j].road].length
          /\ clusters_gdf[attempts[j].anchor].degree > clusters_gdf[attempts[k].anchor].degree

---------------------------------------------------------------------------
(* Further claims about indirect_cluster *)

\* The nodes a returned walk reached and walked through: the traversed nodes
\* but the first, which is the end of the start edge the walk set out from.
WalkedThrough == Tail(walk.result.nodes_traversed)

\* C19: a targeted walk returns the desired cluster or the null result, never
\* another cluster; when it succeeds its terminal node has the desired
\* cluster, no node it walked through has it, and the cluster of every node
\* it walked through is in clusters_traversed. A walk that is not targeted
\* and succeeds returns the cluster of its terminal node, which is the first
\* node it reached that has a cluster.
C19_DesiredOrNull ==
    walk.pc = "returned" =>
        /\ walk.specific_cluster => walk.result.cluster \in {walk.desired_cluster, None}
        /\ walk.result.null => walk.result.cluster = None
        /\ ~walk.result.null =>
              /\ walk.result.cluster # None
              /\ walk.result.cluster = nodes_gdf[walk.result.last_node].cluster
              /\ \A n \in Range(WalkedThrough) :
                    IF walk.specific_cluster
                    THEN /\ nodes_gdf[n].cluster # walk.desired_cluster
                         /\ nodes_gdf[n].cluster # None =>
                               nodes_gdf[n].cluster \in Range(walk.result.clusters_traversed)
                    ELSE nodes_gdf[n].cluster = None

\* A targeted walk has returned its desired cluster after walking through a
\* node of another cluster, which it recorded.
C19_Witness ==
    /\ walk.pc = "returned"
    /\ walk.specific_cluster
    /\ walk.result.cluster = walk.desired_cluster
    /\ \E n \in Range(WalkedThrough) :
          /\ nodes_gdf[n].cluster \notin {None, walk.desired_cluster}
          /\ nodes_gdf[n].cluster \in Range(walk.result.clusters_traversed)

---------------------------------------------------------------------------
(* SpecLines: one call of dissolve_multiple_dual_lines on a bundle of        *)
(* parallel lines between two clusters, an iteration of its while loop a     *)
(* step                                                                      *)

MaxLines == 5

\* How far a line of the bundle lies from the first cluster's side.
LineOffsets == {0, 10, 20, 40, 90}

\* By how much the first line of the bundle overshoots the others at both ends.
LineOvershoots == {0, 5, 15}

LineClusters ==
    [c \in {101, 102} |->
        [x |-> IF c = 101 THEN 0 ELSE 40, y |-> 50, degree |-> 2, keep |-> FALSE]]

\* A line of three coordinates along the bundle, at the given offset.
BundleLine(offset, overshoot) ==
    <<(<<0 - overshoot, offset>>), (<<20, offset>>), (<<40 + overshoot, offset>>)>>

\* dict(zip(ix_lines, line_geometries)), line 331
DictLines(edges) == [i \in 1..Len(edges) |-> [key |-> i, line |-> edges[i].geometry]]

InitLines ==
    \E n \in 3..MaxLines, overshoot \in LineOvershoots, direction \in {"u", "v"} :
        \E offset \in [1..n -> LineOffsets] :
            /\ nodes_gdf = <<>>
            /\ clusters_gdf = LineClusters
            /\ edges_gdf = [i \in 1..n |->
                               [u |-> 101, v |-> 102,
                                geometry |-> BundleLine(offset[i], IF i = 1 THEN overshoot ELSE 0),
                                name |-> None,
                                length |-> 40 + (IF i = 1 THEN 2 * overshoot ELSE 0),
                                pedestrian |-> 0,
                                new_geo |-> FALSE]]
            /\ original_edges_gdf = edges_gdf
            /\ processed = {}
            /\ to_drop = {}
            /\ scan = [NoScan EXCEPT !.pass = "lines"]
            /\ attempt = [outcome |-> "none", direction |-> direction,
                          dict_lines |-> DictLines(edges_gdf)]
            /\ attempts = <<>>
            /\ pc = "lengths"
            /\ walk = NoWalk

\* Lines 344 and 371: the number of lines the while loop leaves.
Residual(n) == IF n % 2 = 0 THEN 2 ELSE 3

\* Lines 337-342: the call returns None when the lengths differ too much.
LinesCheck ==
    /\ pc = "lengths"
    /\ IF lines_too_long([i \in 1..Len(edges_gdf) |-> edges_gdf[i].geometry])
       THEN /\ attempt' = [attempt EXCEPT !.outcome = "length"]
            /\ pc' = "done"
       ELSE /\ attempt' = attempt
            /\ pc' = "reduce"
    /\ UNCHANGED <<nodes_gdf, edges_gdf, clusters_gdf, original_edges_gdf, processed, to_drop,
                   scan, attempts, walk>>

\* One iteration of the while loop of line 345 or of line 373.
LinesReduce ==
    /\ pc = "reduce"
    /\ Len(attempt.dict_lines) > Residual(Len(edges_gdf))
    /\ attempt' = [attempt EXCEPT !.dict_lines = reduce_once(@)]
    /\ UNCHANGED <<nodes_gdf, edges_gdf, clusters_gdf, original_edges_gdf, processed, to_drop,
                   scan, attempts, pc, walk>>

\* Lines 364-369 or 391-404, and 406-417, for a bundle from cluster 101 to
\* cluster 102 without traversed nodes.
LinesCenter ==
    /\ pc = "reduce"
    /\ Len(attempt.dict_lines) <= Residual(Len(edges_gdf))
    /\ LET out == multiple_lines_set(1, edges_gdf, FALSE, attempt.direction,
                      multiple_lines_center(attempt.dict_lines, nodes_gdf, clusters_gdf,
                                            101, 102, FALSE))
       IN /\ edges_gdf' = out.edges
          /\ attempt' = [attempt EXCEPT !.outcome = IF out.raised THEN "raised" ELSE "processed"]
    /\ pc' = "done"
    /\ UNCHANGED <<nodes_gdf, clusters_gdf, original_edges_gdf, processed, to_drop,
                   scan, attempts, walk>>

NextLines == LinesCheck \/ LinesReduce \/ LinesCenter

SpecLines == InitLines /\ [][NextLines]_vars

\* The steps of SpecLines arrive at what the call as a whole arrives at.
LinesStepwise ==
    (scan.pass = "lines" /\ pc = "done") =>
        edges_gdf = dissolve_multiple_dual_lines(
                        [i \in 1..Len(original_edges_gdf) |-> i],
                        [i \in 1..Len(original_edges_gdf) |-> original_edges_gdf[i].geometry],
                        nodes_gdf, original_edges_gdf, clusters_gdf, 101, 102, None, <<>>,
                        attempt.direction, FALSE).edges

---------------------------------------------------------------------------
(* Claims about dissolve_multiple_dual_lines *)

MidDistance(a, b) == Dist(MidPoint2(a), MidPoint2(b))

\* The geometry g, read in the one or the other direction.
SameLine(g, h) == g = h \/ g = Reverse(h)

\* An iteration removed, of the lines d, two whose mean distance to the
\* others is not less than that of any line it kept.
RemovedFarthest(d, kept) ==
    LET gone == {i \in 1..Len(d) : \A k \in 1..Len(kept) : kept[k].key # d[i].key}
    IN /\ Cardinality(gone) = 2
       /\ Len(kept) = Len(d) - 2
       /\ \A k \in 1..Len(kept) : \E i \in 1..Len(d) : d[i] = kept[k]
       /\ \A i \in gone, j \in (1..Len(d)) \ gone :
             SumMidDistance(d, i) >= SumMidDistance(d, j)

\* g is the centerline of the lines a and b from cluster 101 to cluster 102:
\* it runs from the one cluster to the other through the points halfway
\* between the coordinates of a and of b.
IsCenterLine(g, a, b) ==
    /\ Len(g) = Len(a)
    /\ g[1] = ClusterPoint(clusters_gdf, 101)
    /\ g[Len(g)] = ClusterPoint(clusters_gdf, 102)
    /\ \A i \in 2..(Len(g) - 1) :
          g[i] = <<(a[i][1] + b[i][1]) \div 2, (a[i][2] + b[i][2]) \div 2>>

\* Of the three lines d, line c is the one that is not in a pair of the
\* greatest distance between midpoints.
IsCentral(d, c) ==
    \E a, b \in (1..3) \ {c} :
        /\ a # b
        /\ \A i, j \in 1..3 :
              MidDistance(d[a].line, d[b].line) >= MidDistance(d[i].line, d[j].line)

\* C20: every iteration of the reduction removes the two lines of the
\* greatest mean midpoint distance to the others, the reduction ends with two
\* lines of an even and three lines of an odd bundle, and the first line of
\* the bundle is then given the centerline of the two, or the geometry, as it
\* is, of the one of the three that is not in the pair whose midpoints are
\* farthest apart.
C20_ReduceThenCenter ==
    [][(scan.pass = "lines" /\ pc = "reduce") =>
          LET d == attempt.dict_lines
              n == Len(original_edges_gdf)
          IN /\ pc' = "reduce" =>
                   /\ Len(d) > Residual(n)
                   /\ RemovedFarthest(d, attempt'.dict_lines)
             /\ pc' = "done" =>
                   /\ Len(d) = IF n % 2 = 0 THEN 2 ELSE 3
                   /\ edges_gdf'[1].new_geo
                   /\ IF n % 2 = 0
                      THEN \E g \in {edges_gdf'[1].geometry, Reverse(edges_gdf'[1].geometry)} :
                              IsCenterLine(g, d[1].line, d[2].line)
                      ELSE \E c \in 1..3 :
                              /\ IsCentral(d, c)
                              /\ SameLine(edges_gdf'[1].geometry, d[c].line)]_vars

\* A bundle of five lines has been reduced to three, and its first line,
\* which was one of the two removed, has the geometry of the central one.
C20_Witness ==
    /\ scan.pass = "lines"
    /\ pc = "done"
    /\ Len(original_edges_gdf) = 5
    /\ Len(attempt.dict_lines) = 3
    /\ \A k \in 1..3 : attempt.dict_lines[k].key # 1
    /\ edges_gdf[1].new_geo
    /\ ~SameLine(edges_gdf[1].geometry, original_edges_gdf[1].geometry)
    /\ \E c \in 1..3 :
          /\ IsCentral(attempt.dict_lines, c)
          /\ SameLine(edges_gdf[1].geometry, attempt.dict_lines[c].line)

---------------------------------------------------------------------------
(* Claims about what a merged bundle leaves in the tables *)

\* The turn that is due has merged its bundle and is about to commit it.
Merging == pc = "scan" /\ attempt.outcome = "committed"

\* A row of the merging bundle did not end at its goal and was walked on.
ReachedIndirectly == \E i \in 1..Len(attempt.rows) : attempt.rows[i].clus_v = None

\* C21: a merged bundle took the interpolation path exactly when one of its
\* members reached the goal by a walk, which is when the combined list of
\* traversed nodes is not empty; on that path the dissolver leaves the
\* geometry and new_geo of the first line alone, and otherwise it gives the
\* first line the computed line (reversed for direction 'u') and sets
\* new_geo.
C21_InterpolationPath ==
    Merging =>
        LET first == attempt.ix_lines[1]
        IN /\ attempt.interpolation <=> ReachedIndirectly
           /\ attempt.interpolation <=> (attempt.nodes_traversed # <<>>)
           /\ IF attempt.interpolation
              THEN /\ attempt.edges[first].geometry = edges_gdf[first].geometry
                   /\ attempt.edges[first].new_geo = edges_gdf[first].new_geo
              ELSE /\ attempt.edges[first].new_geo
                   /\ attempt.edges[first].geometry =
                         IF attempt.rows[1].dir = "u" THEN Reverse(attempt.cl) ELSE attempt.cl

\* Of a merged bundle one member ended at the goal and another was walked
\* on, and the first line was handed to the interpolation as it was.
C21_Witness ==
    /\ Merging
    /\ attempt.interpolation
    /\ \E i, j \in 1..Len(attempt.rows) :
          attempt.rows[i].clus_v = None /\ attempt.rows[j].clus_v # None
    /\ ~attempt.edges[attempt.ix_lines[1]].new_geo


\* The first lines of the bundles merged so far in the pass.
Survivors == {attempts[i].ix_lines[1] : i \in {j \in 1..Len(attempts) : attempts[j].outcome = "committed"}}

\* C22: in either pass, the first line of a merged bundle is never marked for
\* removal afterwards: it is not in to_drop, and it is in the edge table the
\* pass hands to reassign_edges.
C22_SurvivorsStay ==
    scan.pass \in {"clusters", "nodes"} =>
        \A e \in Survivors :
            /\ e \notin to_drop
            /\ pc = "scan" => e \in DOMAIN edges_gdf


\* The first line of an earlier merged bundle has been marked for removal by
\* a later one.
C22_Witness == \E e \in Survivors : e \in to_drop /\ e \in processed


\* The turns of the pass so far that merged their bundle.
Committed == {i \in 1..Len(attempts) : attempts[i].outcome = "committed"}

\* C23: in either pass no edge is a member of two merged bundles: an edge
\* that is in processed is not again the road or a candidate of a bundle that
\* is merged.
C23_MemberOnce ==
    scan.pass \in {"clusters", "nodes"} =>
        \A i, j \in Committed :
            i < j => Range(attempts[i].ix_lines) \cap Range(attempts[j].ix_lines) = {}

\* An edge an earlier merged bundle removed is a member of a later merged
\* bundle of the pass.
C23_Witness ==
    \E i, j \in Committed :
        /\ i < j
        /\ \E e \in Range(attempts[j].ix_lines) :
              e \in Range(attempts[i].ix_lines) /\ e # attempts[i].ix_lines[1]

---------------------------------------------------------------------------
(* Claims about a bundle that is not merged *)

\* The columns of the edge table a merge writes.
Written(edges) ==
    [e \in DOMAIN edges |->
        [geometry |-> edges[e].geometry, new_geo |-> edges[e].new_geo,
         pedestrian |-> edges[e].pedestrian]]

\* C24: a turn that ends without a merge (no goal, the anchor as goal, fewer
\* than two candidates, traversed edges in common, or a dissolver that
\* returned None) changes nothing: processed, to_drop, the keep flag of every
\* cluster and the geometry, new_geo and pedestrian of every edge are after
\* the turn what they were before it.
C24_AbandonedChangesNothing ==
    [][(pc = "scan" /\ attempt.outcome = "abandoned") =>
          /\ processed' = processed
          /\ to_drop' = to_drop
          /\ \A c \in DOMAIN clusters_gdf : clusters_gdf'[c].keep = clusters_gdf[c].keep
          /\ DOMAIN edges_gdf' = DOMAIN edges_gdf
          /\ Written(edges_gdf') = Written(edges_gdf)]_vars

\* After a merged bundle of the pass, a dissolver has returned None for
\* another bundle.
C24_Witness ==
    /\ pc = "scan"
    /\ attempt.outcome = "abandoned"
    /\ attempt.guard # "none"
    /\ processed # {}

---------------------------------------------------------------------------
(* Claims about the candidates of a step of the walk *)

\* The edges at the node the walk has reached, other than the one it came
\* by, that continue that edge; in the order of the edge table.
Continuations ==
    SelectSeq(DropId(walk.possible_matches, walk.last_line),
              LAMBDA e : is_continuation(walk.last_line, e, edges_gdf))

\* The deflection of edge e from the edge the walk came by.
Deflection(e) ==
    angle_line_geometries(edges_gdf[walk.last_line].geometry, edges_gdf[e].geometry)

\* Edge e is the first of the continuations in ascending order of deflection.
IsFirstCandidate(e) ==
    \E i \in 1..Len(Continuations) :
        /\ Continuations[i] = e
        /\ \A j \in 1..Len(Continuations) :
              \/ Deflection(Continuations[j]) > Deflection(e)
              \/ Deflection(Continuations[j]) = Deflection(e) /\ j >= i

\* The node edge e leads to from the node the walk has reached.
LeadsTo(e) ==
    IF edges_gdf[e].u = walk.coming_from THEN edges_gdf[e].v ELSE edges_gdf[e].u

\* Edge e leads back: to a node already traversed, or to one nearer to the
\* far end of the start edge than the node the walk has reached.
LeadsBack(e) ==
    \/ LeadsTo(e) \in Range(walk.nodes_traversed)
    \/ Dist2(NodePoint(nodes_gdf, LeadsTo(e)), NodePoint(nodes_gdf, walk.other_node))
         < Dist2(NodePoint(nodes_gdf, walk.coming_from), NodePoint(nodes_gdf, walk.other_node))

\* A step of the loop that has candidates to look at.
Choosing ==
    /\ walk.pc = "while"
    /\ Len(walk.possible_matches) > 0
    /\ ~TargetLost(nodes_gdf, clusters_gdf, walk)
    /\ Continuations # <<>>

StartNode ==
    IF edges_gdf[walk.ix_line].u = walk.other_node THEN edges_gdf[walk.ix_line].v
    ELSE edges_gdf[walk.ix_line].u

====
